---- MODULE Spec2Model ----
(***************************************************************************)
(* Model of the patch-queue synchronisation code of git-buildpackage-rpm: *)
(*   - gbp.rpm.SpecFile: the line-addressable spec document, its parser   *)
(*     and update_patches (src/gbp/rpm/__init__.py);                      *)
(*   - gbp.scripts.pq_rpm: generate_patches and import_spec_patches       *)
(*     (src/gbp/scripts/pq_rpm.py).                                       *)
(* A line of the spec file is a record                                    *)
(*   [k, name, num, val, nums]                                            *)
(* k is what the regular expressions of the parser see (tag, directive,   *)
(* gbp tag, comment, other text), val is a file name as the sequence of   *)
(* its dot-separated components, nums the numeric arguments.              *)
(***************************************************************************)
EXTENDS Integers, Sequences, FiniteSets, TLC

\* ------------------------------------------------------------------------
\* Bounds of the model
MaxLen == 2        \* longest patch-filename list handed to update_patches
MaxCalls == 2      \* update_patches calls on one SpecFile object

None == 0          \* Python None for line references
NoNum == -1        \* a tag or directive without a number

\* ------------------------------------------------------------------------
\* Lines
Line(k, name, num, val, nums) ==
    [k |-> k, name |-> name, num |-> num, val |-> val, nums |-> nums]

DeletedLine == Line("deleted", "", NoNum, <<>>, <<>>)
TagLine(name, num, val) == Line("tag", name, num, val, <<>>)
DirectiveLine(name, num, nums) == Line("dir", name, num, <<>>, nums)
GbpTagLine(name, nums) == Line("gbp", name, NoNum, <<>>, nums)
AutoGenComment == Line("comment", "Patches auto-generated by git-buildpackage:", NoNum, <<>>, <<>>)
NameComment(fn) == Line("comment", "", NoNum, fn, <<>>)

\* "PatchN:    name" as written by update_patches
PatchTagText(n, fn) == TagLine("patch", n, fn)
\* "%patchN -pS" as written by update_patches
PatchMacroText(n, strip) == DirectiveLine("patch", n, <<strip>>)

\* re.match("^\s*#.*patch.*auto-generated", line, re.I)
MatchesAutoGenerated(l) ==
    /\ l.k = "comment"
    /\ l.name = "Patches auto-generated by git-buildpackage:"

CompressionSuffixes == {"gz", "bz2", "xz", "lzma"}

\* re.match("^\s*#.+(patch|diff)(\.(gz|bz2|xz|lzma))?\s*$", line, re.I)
MatchesPatchFileComment(l) ==
    /\ l.k = "comment"
    /\ Len(l.val) > 0
    /\ LET n == Len(l.val)
           m == IF n > 1 /\ l.val[n] \in CompressionSuffixes THEN n - 1 ELSE n
       IN  l.val[m] \in {"patch", "diff"}

\* ------------------------------------------------------------------------
\* gbp.rpm.linkedlist.LinkedList: nodes are identified by their index in
\* data; prev and next hold node identities (None at the ends).  A deleted
\* node keeps its own prev/next and loses its data.
\* F(v), with v computed once
Let(v, F(_)) == CHOOSE r \in {F(x) : x \in {v}} : TRUE

EmptyList ==
    [data |-> <<>>, prev |-> <<>>, next |-> <<>>, first |-> None, last |-> None]

LLAppend(ll, text) ==
    LET n == Len(ll.data) + 1 IN
    [data  |-> Append(ll.data, text),
     prev  |-> Append(ll.prev, ll.last),
     next  |-> Append(IF ll.last = None THEN ll.next
                      ELSE [ll.next EXCEPT ![ll.last] = n], None),
     first |-> IF ll.first = None THEN n ELSE ll.first,
     last  |-> n]

LLInsertAfter(ll, node, text) ==
    LET n   == Len(ll.data) + 1
        nxt == ll.next[node]
    IN  [data  |-> Append(ll.data, text),
         prev  |-> Append(IF nxt = None THEN ll.prev
                          ELSE [ll.prev EXCEPT ![nxt] = n], node),
         next  |-> Append([ll.next EXCEPT ![node] = n], nxt),
         first |-> ll.first,
         last  |-> IF nxt = None THEN n ELSE ll.last]

LLDelete(ll, node) ==
    LET p == ll.prev[node]
        x == ll.next[node]
        nx1 == IF p = None THEN ll.next ELSE [ll.next EXCEPT ![p] = x]
        pv1 == IF x = None THEN ll.prev ELSE [ll.prev EXCEPT ![x] = p]
    IN  [data  |-> [ll.data EXCEPT ![node] = DeletedLine],
         prev  |-> pv1,
         next  |-> nx1,
         first |-> IF node = ll.first THEN x ELSE ll.first,
         last  |-> IF node = ll.last THEN p ELSE ll.last]

\* str(node): the text of a node, "None" for None, "" for a deleted node
LLStr(ll, node) == IF node = None THEN DeletedLine ELSE ll.data[node]

RECURSIVE LLWalk(_, _, _)
LLWalk(ll, node, fuel) ==
    IF node = None \/ fuel = 0 THEN <<>>
    ELSE <<node>> \o LLWalk(ll, ll.next[node], fuel - 1)

\* the nodes reached by iterating the list from its head
LLNodes(ll) == LLWalk(ll, ll.first, Len(ll.data))
\* the lines written by write_spec_file
LLLines(ll) == LET ns == LLNodes(ll) IN [i \in 1..Len(ns) |-> ll.data[ns[i]]]

RECURSIVE LLFromSeq(_, _)
LLFromSeq(lines, i) ==
    IF i = 0 THEN EmptyList
    ELSE Let(LLFromSeq(lines, i - 1), LAMBDA ll : LLAppend(ll, lines[i]))

\* ------------------------------------------------------------------------
\* Small helpers for Python dicts and lists
RECURSIVE SortedSeq(_)
SortedSeq(S) ==
    IF S = {} THEN <<>>
    ELSE LET m == CHOOSE x \in S : \A y \in S : x <= y
         IN  <<m>> \o SortedSeq(S \ {m})

SetMax(S) == CHOOSE x \in S : \A y \in S : y <= x
Last(s) == s[Len(s)]
Reverse(s) == [i \in 1..Len(s) |-> s[Len(s) + 1 - i]]
Range(s) == {s[i] : i \in 1..Len(s)}
DictPop(d, key) == [x \in (DOMAIN d) \ {key} |-> d[x]]
DictSet(d, key, v) == [x \in (DOMAIN d) \cup {key} |-> IF x = key THEN v ELSE d[x]]

\* ------------------------------------------------------------------------
\* SpecFile: parsing.  A SpecFile object is the record
\*   [content, patches, tags, special_directives, gbp_tags]
\* patches maps a patch number to the dict built by _parse_tag; tags maps a
\* tag name to its list of line records; special_directives and gbp_tags
\* are the defaultdict(list) of the class ("key in dict" is a non-empty list).
SectionDirectives ==
    {"package", "description", "prep", "build", "install", "clean", "check",
     "pre", "preun", "post", "postun", "verifyscript", "files", "changelog",
     "triggerin", "triggerpostin", "triggerun", "triggerpostun"}

NoTags == [x \in {} |-> <<>>]
NoPatches == [x \in {} |-> 0]
NoDirectives == [x \in {"prep", "setup", "patch"} |-> <<>>]
NoGbpTags == [x \in {"ignore-patches", "patch-macros"} |-> <<>>]

\* _parse_tag: the tag_re match is l.k = "tag"
_parse_tag(ps, node, l) ==
    LET tagnum == IF l.name \in {"source", "patch"} /\ l.num = NoNum
                  THEN 0 ELSE l.num
        new_patch == [name |-> <<"Patch">>, filename |-> l.val,
                      apply |-> FALSE, strip |-> 0, macro_line |-> None,
                      autoupdate |-> TRUE, tag_line |-> node]
        linerecord == [line |-> node, num |-> tagnum, linevalue |-> l.val]
    IN  [ps EXCEPT
           !.patches = IF l.name = "patch" THEN DictSet(@, tagnum, new_patch)
                       ELSE @,
           !.tags = IF l.name \in DOMAIN @
                    THEN [@ EXCEPT ![l.name] = Append(@, linerecord)]
                    ELSE DictSet(@, l.name, <<linerecord>>)]

\* _parse_directive: the directive_re match is l.k = "dir"
_parse_directive(ps, node, l) ==
    LET directiveid == IF l.name # "patch" THEN NoNum
                       ELSE IF l.num # NoNum THEN l.num ELSE 0
        linerecord == [line |-> node, id |-> directiveid, args |-> l.nums]
        keyerror == l.name = "patch" /\ directiveid \notin DOMAIN ps.patches
    IN  IF keyerror THEN [ps EXCEPT !.err = TRUE]
        ELSE [ps EXCEPT
           !.patches = IF l.name = "patch"
                       THEN [@ EXCEPT ![directiveid] =
                               [@ EXCEPT !.strip = IF Len(l.nums) > 0
                                                   THEN l.nums[1] ELSE @,
                                         !.macro_line = node,
                                         !.apply = TRUE]]
                       ELSE @,
           !.special_directives =
                       IF l.name \in {"prep", "setup", "patch"}
                       THEN [@ EXCEPT ![l.name] = Append(@, linerecord)]
                       ELSE @,
           !.in_preamble = IF l.name \in SectionDirectives THEN FALSE ELSE @]

\* _parse_gbp_tag: the gbptag_re match is l.k = "gbp"
_parse_gbp_tag(ps, node, l) ==
    IF l.name \in DOMAIN ps.gbp_tags
    THEN [ps EXCEPT !.gbp_tags[l.name] = Append(@, [line |-> node, args |-> l.nums])]
    ELSE ps

\* the ignorepatches property: the numbers of the last ignore-patches tag
ignorepatches(gbp_tags) ==
    IF gbp_tags["ignore-patches"] # <<>>
    THEN Range(Last(gbp_tags["ignore-patches"]).args)
    ELSE {}

RECURSIVE ParseLines(_, _, _)
ParseLines(ps, ll, node) ==
    IF node = None \/ ps.err THEN ps
    ELSE LET l == ll.data[node]
             ps1 == IF ps.in_preamble /\ l.k = "tag" THEN _parse_tag(ps, node, l)
                    ELSE IF l.k = "dir" THEN _parse_directive(ps, node, l)
                    ELSE IF l.k = "gbp" THEN _parse_gbp_tag(ps, node, l)
                    ELSE ps
         IN  Let(ps1, LAMBDA p : ParseLines(p, ll, ll.next[node]))

\* _parse_content, as called by SpecFile.__init__ on the lines of the file
_parse_content(lines) ==
    Let(LLFromSeq(lines, Len(lines)), LAMBDA ll :
    Let(ParseLines([patches |-> NoPatches, tags |-> NoTags,
                    special_directives |-> NoDirectives,
                    gbp_tags |-> NoGbpTags,
                    in_preamble |-> TRUE, err |-> FALSE], ll, ll.first), LAMBDA ps :
        [content |-> ll,
         patches |-> [n \in DOMAIN ps.patches |->
                        IF n \in ignorepatches(ps.gbp_tags)
                        THEN [ps.patches[n] EXCEPT !.autoupdate = FALSE]
                        ELSE ps.patches[n]],
         tags |-> ps.tags,
         special_directives |-> ps.special_directives,
         gbp_tags |-> ps.gbp_tags,
         err |-> ps.err]))

\* ------------------------------------------------------------------------
\* SpecFile.update_patches

\* the order of self.patches.items(): a CPython 2 dict of small non-negative
\* ints is walked in ascending key order
ItemsOrder(patches) == SortedSeq(DOMAIN patches)

\* a removal loop that forgets the autoupdate flag
IsRemovedAny(patch) == TRUE

\* the condition of line 574
IsRemoved(patch) == patch.autoupdate

\* one iteration of the removal loop (lines 573-592)
RemovePatch(st, num) ==
    LET patch == st.sf.patches[num]
        c0 == st.sf.content
        tprev == c0.prev[patch.tag_line]
        c1 == IF MatchesAutoGenerated(LLStr(c0, tprev))
              THEN LLDelete(c0, tprev) ELSE c0
        lrt == c1.prev[patch.tag_line]
        c2 == LLDelete(c1, patch.tag_line)
        mprev == c2.prev[patch.macro_line]
        c3 == IF MatchesPatchFileComment(LLStr(c2, mprev))
              THEN LLDelete(c2, mprev) ELSE c2
        lrm == c3.prev[patch.macro_line]
        c4 == LLDelete(c3, patch.macro_line)
    IN  IF ~IsRemoved(patch) THEN st
        ELSE IF patch.macro_line = None
        THEN [sf |-> [st.sf EXCEPT !.content = c2,
                                   !.patches = DictPop(@, num)],
              last_removed_tag_line |-> lrt,
              last_removed_macro_line |-> st.last_removed_macro_line]
        ELSE [sf |-> [st.sf EXCEPT !.content = c4,
                                   !.patches = DictPop(@, num)],
              last_removed_tag_line |-> lrt,
              last_removed_macro_line |-> lrm]

RECURSIVE RemovePatches(_, _, _)
RemovePatches(st, order, i) ==
    IF i > Len(order) THEN st
    ELSE Let(RemovePatch(st, order[i]), LAMBDA st1 : RemovePatches(st1, order, i + 1))

\* numbering from the count of the remaining patches
FirstPatchNumByCount(patches) == Cardinality(DOMAIN patches)

\* line 598: the number of the first new patch
FirstPatchNum(patches) ==
    IF DOMAIN patches # {} THEN SetMax(DOMAIN patches) + 1 ELSE 0

\* lines 600-603
AddNewPatches(patches, patchnum, patchfilenames) ==
    [n \in (DOMAIN patches) \cup {patchnum + ind - 1 : ind \in 1..Len(patchfilenames)} |->
        IF n >= patchnum /\ n < patchnum + Len(patchfilenames)
        THEN [name |-> patchfilenames[n - patchnum + 1],
              filename |-> patchfilenames[n - patchnum + 1],
              apply |-> TRUE, strip |-> 1, macro_line |-> None,
              autoupdate |-> TRUE, tag_line |-> None]
        ELSE patches[n]]

\* an anchor choice that forgets the removed tag lines
TagAnchorNoRemoved(sf, last_removed_tag_line) ==
    IF "patch" \in DOMAIN sf.tags THEN Last(sf.tags["patch"]).line
    ELSE IF "source" \in DOMAIN sf.tags THEN Last(sf.tags["source"]).line
    ELSE IF "name" \in DOMAIN sf.tags THEN Last(sf.tags["name"]).line
    ELSE None

\* lines 606-619: None stands for the KeyError of self._tags['name']
TagAnchor(sf, last_removed_tag_line) ==
    IF last_removed_tag_line # None THEN last_removed_tag_line
    ELSE IF "patch" \in DOMAIN sf.tags THEN Last(sf.tags["patch"]).line
    ELSE IF "source" \in DOMAIN sf.tags THEN Last(sf.tags["source"]).line
    ELSE IF "name" \in DOMAIN sf.tags THEN Last(sf.tags["name"]).line
    ELSE None

\* an anchor choice that looks at %setup before the removed macro lines
MacroAnchorSetupFirst(sf, last_removed_macro_line) ==
    IF sf.gbp_tags["patch-macros"] # <<>>
    THEN Last(sf.gbp_tags["patch-macros"]).line
    ELSE IF sf.special_directives["setup"] # <<>>
    THEN Last(sf.special_directives["setup"]).line
    ELSE IF last_removed_macro_line # None THEN last_removed_macro_line
    ELSE IF sf.special_directives["patch"] # <<>>
    THEN Last(sf.special_directives["patch"]).line
    ELSE IF sf.special_directives["prep"] # <<>>
    THEN Last(sf.special_directives["prep"]).line
    ELSE None

\* lines 633-653: None stands for the GbpError of line 653
MacroAnchor(sf, last_removed_macro_line) ==
    IF sf.gbp_tags["patch-macros"] # <<>>
    THEN Last(sf.gbp_tags["patch-macros"]).line
    ELSE IF last_removed_macro_line # None THEN last_removed_macro_line
    ELSE IF sf.special_directives["patch"] # <<>>
    THEN Last(sf.special_directives["patch"]).line
    ELSE IF sf.special_directives["setup"] # <<>>
    THEN Last(sf.special_directives["setup"]).line
    ELSE IF sf.special_directives["prep"] # <<>>
    THEN Last(sf.special_directives["prep"]).line
    ELSE None

\* an insertion loop that walks the patch numbers lowest first
RECURSIVE InsertTagsForward(_, _, _, _)
InsertTagsForward(sf, line, order, i) ==
    IF i > Len(order) THEN sf
    ELSE LET n == order[Len(order) + 1 - i]
             patch == sf.patches[n]
         IN  IF patch.autoupdate
             THEN Let(LLInsertAfter(sf.content, line, PatchTagText(n, patch.name)),
                      LAMBDA c :
                  Let([sf EXCEPT !.content = c,
                                 !.patches[n].tag_line = Len(c.data)],
                      LAMBDA sf1 : InsertTagsForward(sf1, line, order, i + 1)))
             ELSE InsertTagsForward(sf, line, order, i + 1)

\* lines 622-627: tag lines are inserted after the anchor, highest number first
RECURSIVE InsertTags(_, _, _, _)
InsertTags(sf, line, order, i) ==
    IF i > Len(order) THEN sf
    ELSE LET n == order[i]
             patch == sf.patches[n]
         IN  IF patch.autoupdate
             THEN Let(LLInsertAfter(sf.content, line, PatchTagText(n, patch.name)),
                      LAMBDA c :
                  Let([sf EXCEPT !.content = c,
                                 !.patches[n].tag_line = Len(c.data)],
                      LAMBDA sf1 : InsertTags(sf1, line, order, i + 1)))
             ELSE InsertTags(sf, line, order, i + 1)

\* lines 656-663
RECURSIVE InsertMacros(_, _, _, _)
InsertMacros(sf, line, order, i) ==
    IF i > Len(order) THEN sf
    ELSE LET n == order[i]
             patch == sf.patches[n]
         IN  IF patch.autoupdate /\ patch.apply
             THEN Let(LLInsertAfter(sf.content, line, PatchMacroText(n, patch.strip)),
                      LAMBDA c1 :
                  Let([sf EXCEPT !.content = LLInsertAfter(c1, line,
                                                           NameComment(patch.name)),
                                 !.patches[n].macro_line = Len(c1.data)],
                      LAMBDA sf1 : InsertMacros(sf1, line, order, i + 1)))
             ELSE InsertMacros(sf, line, order, i + 1)

\* update_patches(patchfilenames) on the SpecFile sf.  The result holds the
\* object after the call, how the call ended and the anchors it used.
\* an update that goes on to the insertion for every list
ReturnsEarlyNever(patchfilenames) == FALSE

\* lines 594-595: nothing is inserted for the empty list
ReturnsEarly(patchfilenames) == Len(patchfilenames) = 0

update_patches(sf, patchfilenames) ==
    Let(RemovePatches([sf |-> sf, last_removed_tag_line |-> None,
                       last_removed_macro_line |-> None],
                      ItemsOrder(sf.patches), 1), LAMBDA st :
    Let([st.sf EXCEPT !.patches = AddNewPatches(@, FirstPatchNum(@), patchfilenames)],
        LAMBDA sf2 :
    Let(TagAnchor(sf2, st.last_removed_tag_line), LAMBDA tline :
    LET order == Reverse(SortedSeq(DOMAIN sf2.patches)) IN
    IF ReturnsEarly(patchfilenames)
    THEN [sf |-> st.sf, result |-> "ok", tag_anchor |-> None, macro_anchor |-> None]
    ELSE IF tline = None
    THEN [sf |-> sf2, result |-> "KeyError", tag_anchor |-> None, macro_anchor |-> None]
    ELSE
    Let(InsertTags(sf2, tline, order, 1), LAMBDA sf3 :
    Let([sf3 EXCEPT !.content = LLInsertAfter(@, tline, AutoGenComment)], LAMBDA sf4 :
    Let(MacroAnchor(sf4, st.last_removed_macro_line), LAMBDA mline :
    IF mline = None
    THEN [sf |-> sf4, result |-> "GbpError", tag_anchor |-> tline, macro_anchor |-> None]
    ELSE [sf |-> InsertMacros(sf4, mline, order, 1), result |-> "ok",
          tag_anchor |-> tline, macro_anchor |-> mline]))))))

\* ------------------------------------------------------------------------
\* The spec files the model starts from, and the file names it is called with
PatchNums == {0, 1, 5}
OldFileName(n) == IF n = 0 THEN <<"old", "patch">>
                  ELSE IF n = 1 THEN <<"fix", "diff">>
                  ELSE <<"vendor", "patch">>
NewFileNames == {<<"a", "patch">>, <<"b", "patch">>, <<"d", "txt">>}

RECURSIVE SeqsOfLen(_, _)
SeqsOfLen(S, n) ==
    IF n = 0 THEN {<<>>}
    ELSE {Append(q, x) : q \in SeqsOfLen(S, n - 1), x \in S}

\* the place of a new file name in the sorted directory listing
NameRank(fn) == IF fn[1] = "a" THEN 1 ELSE IF fn[1] = "b" THEN 2 ELSE 3

\* lists of distinct file names in the order of their names, as an export
\* with numbered patch files writes them
PatchLists ==
    {q \in UNION {SeqsOfLen(NewFileNames, n) : n \in 0..MaxLen} :
        \A i, j \in 1..Len(q) : i < j => NameRank(q[i]) < NameRank(q[j])}

RECURSIVE Concat(_, _)
Concat(f, order) ==
    IF order = <<>> THEN <<>>
    ELSE f[order[1]] \o Concat(f, Tail(order))

\* status: patch number -> "none" | "auto" | "manual"
\* desc: the Patch tags stand in descending order in the file
\* cmt: an auto-generated comment stands above the Patch tags
\* lead: the Patch tags are the first lines of the file
\* name: the file has a Name tag line the parser recognises (a Name tag that
\* comes from an included file or a macro expansion is not such a line)
\* prep: "none" | "prep" | "setup" | "marker"; mac: "none" | "bare" | "commented"
Manifest(name, src, status, desc, cmt, lead, prep, mac) ==
    LET present == {n \in PatchNums : status[n] # "none"}
        manual == {n \in PatchNums : status[n] = "manual"}
        asc == SortedSeq(present)
        order == IF desc THEN Reverse(asc) ELSE asc
        tagblock == (IF cmt /\ present # {} THEN <<AutoGenComment>> ELSE <<>>)
                    \o [i \in 1..Len(order) |->
                          TagLine("patch", order[i], OldFileName(order[i]))]
        head == (IF name THEN <<TagLine("name", NoNum, <<"pkg">>)>> ELSE <<>>)
                \o (IF src THEN <<TagLine("source", 0, <<"pkg", "tar", "gz">>)>>
                    ELSE <<>>)
                \o (IF manual # {}
                    THEN <<GbpTagLine("ignore-patches", SortedSeq(manual))>>
                    ELSE <<>>)
        preamble == IF lead THEN tagblock \o head ELSE head \o tagblock
        prepsect == IF prep = "none" THEN <<>>
                    ELSE IF prep = "prep" THEN <<DirectiveLine("prep", NoNum, <<>>)>>
                    ELSE IF prep = "setup"
                    THEN <<DirectiveLine("prep", NoNum, <<>>),
                           DirectiveLine("setup", NoNum, <<>>)>>
                    ELSE <<DirectiveLine("prep", NoNum, <<>>),
                           DirectiveLine("setup", NoNum, <<>>),
                           GbpTagLine("patch-macros", <<>>)>>
        macro == [n \in present |->
                    (IF mac = "commented" THEN <<NameComment(OldFileName(n))>>
                     ELSE <<>>)
                    \o <<DirectiveLine("patch", n, <<1>>)>>]
        macros == IF mac = "none" \/ prep = "none" THEN <<>> ELSE Concat(macro, asc)
    IN  preamble \o prepsect \o macros \o <<DirectiveLine("build", NoNum, <<>>)>>

Statuses ==
    {st \in [PatchNums -> {"none", "auto", "manual"}] :
        st[0] # "manual" /\ st[5] # "auto"}

PrepMac == {<<"none", "none">>, <<"prep", "none">>, <<"setup", "bare">>,
            <<"setup", "commented">>, <<"marker", "commented">>}

Manifests ==
    {Manifest(TRUE, TRUE, st, desc, cmt, lead, pm[1], pm[2]) :
        st \in Statuses, desc \in BOOLEAN, cmt \in BOOLEAN, lead \in BOOLEAN,
        pm \in PrepMac}
    \cup {Manifest(TRUE, FALSE, [n \in PatchNums |-> "none"], FALSE, FALSE,
                   FALSE, pm[1], pm[2]) : pm \in PrepMac}
    \cup {Manifest(FALSE, FALSE, st, FALSE, FALSE, FALSE, pm[1], pm[2]) :
              st \in Statuses, pm \in PrepMac}

\* ------------------------------------------------------------------------
\* State of the specification of SpecFile
VARIABLES content, patches, tags, special_directives, gbp_tags, orig, calls,
          disk, loaded, bb, run,
          commits, gen, branch, current, spec_series, patch_files, imp

\* the packaging meta data: the SpecFile object with its file, and the
\* BitBake recipe bb
specvars == <<content, patches, tags, special_directives, gbp_tags, orig, calls,
              disk, loaded, bb>>

\* no recipe is involved
NoBB == [file |-> <<>>, file0 |-> <<>>, op |-> "", var |-> "", ret |-> <<>>]

\* the SpecFile object in the current state
Self == [content |-> content, patches |-> patches, tags |-> tags,
         special_directives |-> special_directives, gbp_tags |-> gbp_tags]

genvars == <<commits, gen>>
pqvars == <<branch, current, spec_series, patch_files, imp>>
gitvars == <<genvars, pqvars, run>>
vars == <<specvars, gitvars>>

\* SpecFile.__init__: the object after parsing the lines of a file
InitSpecFile ==
    \E m \in Manifests : \E sf \in {_parse_content(m)} :
        /\ ~sf.err
        /\ content = sf.content
        /\ patches = sf.patches
        /\ tags = sf.tags
        /\ special_directives = sf.special_directives
        /\ gbp_tags = sf.gbp_tags
        /\ orig = m
        /\ calls = <<>>
        /\ disk = m
        /\ loaded = "ok"
        /\ bb = NoBB

\* the record of a call: the object before the call, the argument, the
\* outcome, the lines of the document after it and the two anchors it chose
CallRecord(pre, fns, r) ==
    [pre |-> pre, args |-> fns, result |-> r.result,
     lines |-> LLLines(r.sf.content),
     tag_anchor |-> r.tag_anchor, macro_anchor |-> r.macro_anchor]

\* a call spec.update_patches(patchfilenames); calls records the argument,
\* the outcome and the lines of the document after the call.  A caller of
\* this repository stops using the object once a call has raised.
UpdatePatches ==
    /\ Len(calls) < MaxCalls
    /\ (IF calls = <<>> THEN TRUE ELSE Last(calls).result = "ok")
    /\ \E fns \in PatchLists : \E r \in {update_patches(Self, fns)} :
        /\ content' = r.sf.content
        /\ patches' = r.sf.patches
        /\ tags' = r.sf.tags
        /\ special_directives' = r.sf.special_directives
        /\ gbp_tags' = r.sf.gbp_tags
        /\ calls' = Append(calls, CallRecord(Self, fns, r))
        /\ UNCHANGED <<orig, disk, loaded, bb, gitvars>>

\* no repository is involved in the calls on a SpecFile object
NoGen == [called |-> FALSE, start |-> 0, squash |-> 0, head |-> 0,
          end |-> [t |-> "invalid", id |-> 0, tree |-> <<>>],
          options |-> [patch_numbers |-> TRUE, ignore_path |-> FALSE,
                       patch_export_compress |-> 0],
          out |-> [result |-> "", patches |-> <<>>, commands |-> {}, log |-> {}]]
Base == "master"
Pq == "development/master"
NoImp == [op |-> "", force |-> FALSE, import_files |-> {}, imported |-> {},
          result |-> "",
          pre |-> [branch |-> [b \in {Base, Pq} |-> None], current |-> "",
                   ncommits |-> 0]]
IdlePq ==
    /\ branch = [b \in {Base, Pq} |-> None] /\ current = Base
    /\ spec_series = <<>> /\ patch_files = {} /\ imp = NoImp
\* no pq command is running
NoRun == [pc |-> "", tool |-> "", argv |-> "", fs |-> {}, fs0 |-> {},
          tmp_dir |-> "", raised |-> "", retval |-> 0]
IdleGit == commits = <<>> /\ gen = NoGen /\ IdlePq /\ run = NoRun

Init == InitSpecFile /\ IdleGit
Next == UpdatePatches
Spec == Init /\ [][Next]_vars

\* ------------------------------------------------------------------------
\* Properties of update_patches

OkCall(c) == c.result = "ok"

\* C1: calling update_patches twice in a row with the same list leaves the
\* document, line for line, as the first call left it.
C1_Idempotent ==
    \A i \in 1..(Len(calls) - 1) :
        (calls[i].args = calls[i + 1].args /\ OkCall(calls[i]) /\ OkCall(calls[i + 1]))
            => calls[i + 1].lines = calls[i].lines

ManualNums == {n \in DOMAIN patches : ~patches[n].autoupdate}
AutoNums == {n \in DOMAIN patches : patches[n].autoupdate}

\* C2: after update_patches with k > 0 file names the autoupdate patches carry
\* the k consecutive numbers from (highest manually maintained number + 1),
\* or from 0 when there is no manually maintained patch, in list order.
C2_Numbering ==
    (calls # <<>> /\ OkCall(Last(calls)) /\ Last(calls).args # <<>>) =>
        LET args == Last(calls).args
            k == Len(args)
            start == IF ManualNums = {} THEN 0 ELSE SetMax(ManualNums) + 1
        IN  /\ AutoNums = start..(start + k - 1)
            /\ SetMax(AutoNums) = k - 1 + start
            /\ \A n \in AutoNums :
                 /\ patches[n].name = args[n - start + 1]
                 /\ content.data[patches[n].tag_line] = PatchTagText(n, args[n - start + 1])

C2_Witness ==
    /\ calls # <<>> /\ OkCall(Last(calls)) /\ Len(Last(calls).args) = 2
    /\ ManualNums = {1, 5}
    /\ AutoNums = {6, 7}

\* the numbers listed by the gbp-ignore-patches annotation of the file
OrigIgnored ==
    UNION {Range(orig[i].nums) : i \in {j \in 1..Len(orig) :
              orig[j].k = "gbp" /\ orig[j].name = "ignore-patches"}}

IsManualPatchLine(l) ==
    /\ l.name = "patch"
    /\ l.k \in {"tag", "dir"}
    /\ l.num \in OrigIgnored

\* C3: the Patch tag line and the %patch macro line of every manually
\* maintained patch stay in the document, with their text, whatever lists
\* update_patches is called with.
C3_ManualPreserved ==
    \A i \in 1..Len(orig) :
        IsManualPatchLine(orig[i]) =>
            /\ i \in Range(LLNodes(content))
            /\ content.data[i] = orig[i]

C3_Witness ==
    /\ Len(calls) = 2
    /\ calls[1].args # <<>> /\ calls[2].args = <<>>
    /\ \E i, j \in 1..Len(orig) :
          /\ IsManualPatchLine(orig[i]) /\ orig[i].k = "dir"
          /\ orig[j].k = "tag" /\ orig[j].name = "patch" /\ ~IsManualPatchLine(orig[j])
          /\ content.data[j] = DeletedLine
    /\ C3_ManualPreserved

\* Scenario 1: the file has the autoupdate "Patch0: old.patch" and the manually
\* maintained "Patch5: vendor.patch", and update_patches(["a.patch", "b.patch"])
\* was the one call made.
IsPatchTag(l) == l.k = "tag" /\ l.name = "patch"
Scenario1 ==
    /\ {orig[i] : i \in {j \in 1..Len(orig) : IsPatchTag(orig[j])}}
         = {TagLine("patch", 0, <<"old", "patch">>),
            TagLine("patch", 5, <<"vendor", "patch">>)}
    /\ OrigIgnored = {5}
    /\ Len(calls) = 1
    /\ calls[1].args = << <<"a", "patch">>, <<"b", "patch">> >>
    /\ OkCall(calls[1])

IndexOf(q, x) == CHOOSE i \in 1..Len(q) : q[i] = x
\* the line above the old Patch0 tag that is left once a comment recognised
\* as auto-generated has been removed (None: the tag was at the top)
OldPatch0Prev ==
    LET i == IndexOf(orig, TagLine("patch", 0, <<"old", "patch">>))
        j == IF i > 1 /\ MatchesAutoGenerated(orig[i - 1]) THEN i - 2 ELSE i - 1
    IN  j

\* the tag block of the new patches numbered from n stands right after node
BlockAfter(node, n) ==
    LET ns == LLNodes(content) IN
    \E j \in 1..(Len(ns) - 3) :
        /\ ns[j] = node
        /\ content.data[ns[j + 1]] = AutoGenComment
        /\ content.data[ns[j + 2]] = PatchTagText(n, <<"a", "patch">>)
        /\ content.data[ns[j + 3]] = PatchTagText(n + 1, <<"b", "patch">>)

Patch5Unchanged ==
    TagLine("patch", 5, <<"vendor", "patch">>) \in Range(LLLines(content))

\* C4 as stated: the new tags are Patch0 and Patch1, in place of the old Patch0.
C4_Original ==
    Scenario1 =>
        /\ Patch5Unchanged
        /\ OldPatch0Prev # None => BlockAfter(OldPatch0Prev, 0)

\* C4 as amended: the new tags are Patch6 and Patch7 (one above the manually
\* maintained 5), placed right after the line that stood above the old Patch0
\* tag when there is such a line.
C4_Scenario1 ==
    Scenario1 =>
        /\ Patch5Unchanged
        /\ AutoNums = {6, 7}
        /\ OldPatch0Prev # None => BlockAfter(OldPatch0Prev, 6)
        /\ \A l \in Range(LLLines(content)) : IsPatchTag(l) => l.num \in {5, 6, 7}

C4_Witness ==
    /\ Scenario1
    /\ OldPatch0Prev # None
    /\ BlockAfter(OldPatch0Prev, 6)

\* ------------------------------------------------------------------------
\* The git repository behind gbp.scripts.pq_rpm.  A commit is the record
\* [parents, tree, ignore]: its parent commits, its tree (path -> content,
\* 0 for an absent file) and whether its message carries "Gbp-Rpm: Ignore".
\* Commits are numbered in the order of their creation, so a parent has a
\* smaller number than its children.
Paths == {"f", "m", "c"}
EmptyTree == [p \in Paths |-> 0]
\* the paths matched by the --patch-export-ignore-path expression, when given
IgnoredPaths == {"m"}

Commit(parents, tree, ignore) ==
    [parents |-> parents, tree |-> tree, ignore |-> ignore]

RECURSIVE AncestorsUpTo(_, _, _)
AncestorsUpTo(cs, S, fuel) ==
    LET T == S \cup UNION {Range(cs[c].parents) : c \in S}
    IN  IF T = S \/ fuel = 0 THEN S ELSE AncestorsUpTo(cs, T, fuel - 1)

\* the commits reachable from c, c included
Ancestors(cs, c) == AncestorsUpTo(cs, {c}, Len(cs))

\* git merge-base: the best common ancestors of a and b
MergeBases(cs, a, b) ==
    LET common == Ancestors(cs, a) \cap Ancestors(cs, b)
    IN  {x \in common : \A y \in common \ {x} : x \notin Ancestors(cs, y)}

\* an ancestry test that only asks for some common history
is_ancestor_any_base(cs, parent, child) == MergeBases(cs, parent, child) # {}

\* is_ancestor (lines 80-88): the merge base is the parent itself;
\* a failing get_merge_base (no common ancestor) gives None
is_ancestor(cs, parent, child) ==
    LET bases == MergeBases(cs, parent, child)
        merge_base == IF bases = {} THEN None ELSE CHOOSE x \in bases : TRUE
    IN  merge_base = parent

\* repo.get_commits(start, end): git log start..end, newest first
get_commits(cs, start, end) ==
    Reverse(SortedSeq(Ancestors(cs, end) \ Ancestors(cs, start)))

\* repo.get_commits(start, end, options=['--merges'])
get_merges(cs, start, end) ==
    Reverse(SortedSeq({c \in Ancestors(cs, end) \ Ancestors(cs, start) :
                          Len(cs[c].parents) > 1}))

\* the difference of two trees as a patch: changed path -> <<old, new>>
TreeDiff(t1, t2, exclude) ==
    [p \in {q \in Paths \ exclude : t1[q] # t2[q]} |-> <<t1[p], t2[p]>>]

EmptyDelta == [p \in {} |-> <<0, 0>>]

\* the tree a commit is compared with by "git diff commit^!"
ParentTree(cs, c) ==
    IF cs[c].parents = <<>> THEN EmptyTree ELSE cs[cs[c].parents[1]].tree

\* a patch file: comp is the compression its name stands for, as
\* parse_archive_filename tells it ("" for none)
PatchFile(kind, a, b, num, delta) ==
    [kind |-> kind, a |-> a, b |-> b, num |-> num, delta |-> delta, comp |-> ""]

\* the None returned when there is nothing to write
NoFile == PatchFile("none", 0, 0, 0, EmptyDelta)

\* format_diff: the diff between two trees, None when it is empty
format_diff(kind, a, b, t1, t2, exclude) ==
    LET d == TreeDiff(t1, t2, exclude)
    IN  IF d = EmptyDelta THEN NoFile ELSE PatchFile(kind, a, b, 0, d)

\* format_patch: the patch of one commit, numbered by its place in the
\* series when numbering is on; None when the commit changes nothing
format_patch(cs, c, series, numbered, exclude) ==
    LET d == TreeDiff(ParentTree(cs, c), cs[c].tree, exclude)
    IN  IF d = EmptyDelta THEN NoFile
        ELSE PatchFile("patch", 0, c, IF numbered THEN Len(series) + 1 ELSE 0, d)

\* treeish arguments
CommitRef(c) == [t |-> "commit", id |-> c, tree |-> <<>>]
TreeRef(tree) == [t |-> "tree", id |-> None, tree |-> tree]
InvalidRef == [t |-> "invalid", id |-> None, tree |-> <<>>]
SquashNone == 0
SquashHead == -1

\* a loop that visits every commit of the range twice
CommitOrderTwice(cs, start, end) ==
    Reverse(get_commits(cs, start, end)) \o Reverse(get_commits(cs, start, end))

\* a loop over the commits as git log lists them
CommitOrderNewestFirst(cs, start, end) == get_commits(cs, start, end)

\* line 152: reversed(repo.get_commits(start, end_commit))
CommitOrder(cs, start, end) == Reverse(get_commits(cs, start, end))

\* a loop that exports every commit
IsIgnoredNever(commit) == FALSE

\* parse_gbp_commands of line 154 and the test of line 156
IsIgnored(commit) == commit.ignore

\* lines 152-163: the per-commit loop, oldest commit first
RECURSIVE ExportCommits(_, _, _, _, _)
ExportCommits(cs, order, i, acc, options) ==
    IF i > Len(order) THEN acc
    ELSE LET c == order[i]
             exclude == IF options.ignore_path THEN IgnoredPaths ELSE {}
             fn == format_patch(cs, c, acc.patches, options.patch_numbers, exclude)
         IN  IF ~IsIgnored(cs[c])
             THEN IF fn # NoFile
                  THEN ExportCommits(cs, order, i + 1,
                         [acc EXCEPT !.patches = Append(@, fn),
                                     !.commands = @ \cup {fn}], options)
                  ELSE ExportCommits(cs, order, i + 1, acc, options)
             ELSE ExportCommits(cs, order, i + 1,
                                [acc EXCEPT !.log = @ \cup {c}], options)

GenResult(result, files, cmds, skipped) ==
    [result |-> result, patches |-> files, commands |-> cmds, log |-> skipped]

\* os.path.getsize of a written file: a header and one hunk for every
\* changed path
getsize(fn) == 1 + Cardinality(DOMAIN fn.delta)

\* lines 64-78: files larger than the threshold are compressed by gzip, and
\* the returned name of such a file ends in .gz; a threshold of 0 turns the
\* compression off
compress_patches(files, compress_size) ==
    [i \in DOMAIN files |->
        IF compress_size # 0 /\ getsize(files[i]) > compress_size
        THEN [files[i] EXCEPT !.comp = "gzip"]
        ELSE files[i]]

\* a start that no diff ever advances
AdvanceStartNever(fn, start, to) == start

\* lines 133-135 and 146-149: the start of the range moves to the end of a
\* diff only when the diff was written
AdvanceStart(fn, start, to) == IF fn # NoFile THEN to ELSE start

\* the oldest merge of the range
FirstMergeOldest(merges) == merges[Len(merges)]

\* line 141: merges[0], the first commit that git log --merges lists
FirstMerge(merges) == merges[1]

\* generate_patches(repo, start, squash, end, outdir, options) in a repository
\* with the commits cs and the commit head checked out.  patches of the
\* result are the files written, in the order of the returned list.
generate_patches(cs, head, start, squash, end, options) ==
    LET exclude == IF options.ignore_path THEN IgnoredPaths ELSE {}
        end_commit == IF end.t = "commit" THEN end.id ELSE head
        squash_sha1 == IF squash = SquashHead THEN end_commit ELSE squash
        squashing == squash # SquashNone /\ start # squash_sha1
        squash_fn == IF squashing
                     THEN format_diff("squash", start, squash_sha1,
                                      cs[start].tree, cs[squash_sha1].tree, exclude)
                     ELSE NoFile
        patches1 == IF squash_fn # NoFile THEN <<squash_fn>> ELSE <<>>
        start1 == AdvanceStart(squash_fn, start, squash_sha1)
        merges == get_merges(cs, start1, end_commit)
        merge_sha1 == IF merges # <<>> THEN FirstMerge(merges) ELSE None
        merge_fn == IF merges # <<>>
                    THEN format_diff("merge", start1, merge_sha1,
                                     cs[start1].tree, cs[merge_sha1].tree, exclude)
                    ELSE NoFile
        patches2 == IF merge_fn # NoFile THEN Append(patches1, merge_fn) ELSE patches1
        start2 == AdvanceStart(merge_fn, start1, merge_sha1)
        acc == ExportCommits(cs, CommitOrder(cs, start2, end_commit), 1,
                             [patches |-> patches2, commands |-> {}, log |-> {}],
                             options)
        tail_fn == IF end.t = "tree"
                   THEN format_diff("tail", end_commit, None,
                                    cs[end_commit].tree, end.tree, exclude)
                   ELSE NoFile
        patches3 == IF tail_fn # NoFile THEN Append(acc.patches, tail_fn)
                    ELSE acc.patches
    IN  IF end.t = "invalid"
        THEN GenResult("InvalidTreeish", <<>>, {}, {})
        ELSE IF ~is_ancestor(cs, start, end_commit)
        THEN GenResult("NotAncestor", <<>>, {}, {})
        ELSE IF squashing /\ squash_sha1 \notin Range(get_commits(cs, start, end_commit))
        THEN GenResult("SquashNotInHistory", <<>>, {}, {})
        ELSE GenResult("ok",
                       compress_patches(patches3, options.patch_export_compress),
                       acc.commands, acc.log)

\* ------------------------------------------------------------------------
\* Specification of generate_patches: a repository with the upstream commit 1
\* and the unrelated root 2 of the packaging branch grows a line of commits
\* on top of upstream, some of them merges with the packaging branch, and
\* generate_patches is called on it.
MaxCommits == 5    \* commits in the repository

UpstreamCommit == 1
PackagingCommit == 2
PackagingTree == [p \in Paths |-> IF p = "c" THEN 1 ELSE 0]

\* the newest commit of the line on top of upstream
Tip(cs) == IF Len(cs) > 2 THEN Len(cs) ELSE UpstreamCommit

Flip(tree, p) == [tree EXCEPT ![p] = 1 - @]

IdleSpecFile ==
    /\ content = EmptyList /\ patches = NoPatches /\ tags = NoTags
    /\ special_directives = NoDirectives /\ gbp_tags = NoGbpTags
    /\ orig = <<>> /\ calls = <<>> /\ disk = <<>> /\ loaded = "no"
    /\ bb = NoBB

InitGen ==
    /\ commits = <<Commit(<<>>, EmptyTree, FALSE),
                   Commit(<<>>, PackagingTree, FALSE)>>
    /\ gen = NoGen
    /\ IdlePq /\ IdleSpecFile /\ run = NoRun

\* the commits a developer makes: a change of file f (possibly with the
\* ignore command in the message) or a change of file m
CommitKinds == {"f", "f-ignore", "m"}
NewCommit(cs, tip, kind) ==
    Commit(<<tip>>, Flip(cs[tip].tree, IF kind = "m" THEN "m" ELSE "f"),
           kind = "f-ignore")

\* git commit on the line
GitCommit ==
    /\ Len(commits) < MaxCommits
    /\ \E kind \in CommitKinds :
         commits' = Append(commits, NewCommit(commits, Tip(commits), kind))
    /\ gen' = NoGen
    /\ UNCHANGED <<specvars, pqvars, run>>

\* git merge of the packaging branch into the line
GitMerge ==
    /\ Len(commits) < MaxCommits
    /\ LET tip == Tip(commits)
           tree == [p \in Paths |-> IF commits[PackagingCommit].tree[p] # 0
                                    THEN commits[PackagingCommit].tree[p]
                                    ELSE commits[tip].tree[p]]
       IN  commits' = Append(commits, Commit(<<tip, PackagingCommit>>, tree, FALSE))
    /\ gen' = NoGen
    /\ UNCHANGED <<specvars, pqvars, run>>

\* the end arguments: a commit, a bare tree (that of the tip, or the tip's
\* with f changed), or an object that does not exist
EndRefs(cs) ==
    {CommitRef(c) : c \in 1..Len(cs)}
    \cup {TreeRef(cs[Tip(cs)].tree), TreeRef(Flip(cs[Tip(cs)].tree, "f"))}
    \cup {InvalidRef}

\* the values of patch-export-compress that turn the compression on: every
\* file, files that change more than one path
CompressSizes == {1, 2}

\* a call of generate_patches; head is the commit checked out at the call.
\* gen holds the arguments and the result of the call until the repository
\* changes again.
Generate ==
    \E start \in 1..Len(commits), end \in EndRefs(commits),
       squash \in {SquashNone, SquashHead} \cup (1..Len(commits)),
       head \in {PackagingCommit, Tip(commits)}, ign \in BOOLEAN :
        LET options == [patch_numbers |-> TRUE, ignore_path |-> ign,
                        patch_export_compress |-> 0] IN
        /\ ~gen.called
        /\ end.t # "tree" => head = Tip(commits)
        /\ gen' = [called |-> TRUE, start |-> start, squash |-> squash,
                   head |-> head, end |-> end, options |-> options,
                   out |-> generate_patches(commits, head, start, squash, end, options)]
        /\ UNCHANGED <<commits, specvars, pqvars, run>>

\* a call of generate_patches with patch-export-compress set, from the
\* upstream commit as the export command calls it
GenerateCompressed ==
    \E end \in EndRefs(commits), squash \in {SquashNone, SquashHead},
       head \in {PackagingCommit, Tip(commits)}, compress \in CompressSizes :
        LET options == [patch_numbers |-> TRUE, ignore_path |-> FALSE,
                        patch_export_compress |-> compress] IN
        /\ ~gen.called
        /\ end.t # "tree" => head = Tip(commits)
        /\ gen' = [called |-> TRUE, start |-> UpstreamCommit, squash |-> squash,
                   head |-> head, end |-> end, options |-> options,
                   out |-> generate_patches(commits, head, UpstreamCommit, squash,
                                            end, options)]
        /\ UNCHANGED <<commits, specvars, pqvars, run>>

NextGen == GitCommit \/ GitMerge \/ Generate \/ GenerateCompressed
SpecGen == InitGen /\ [][NextGen]_vars

\* ------------------------------------------------------------------------
\* Properties of generate_patches

\* the commit the end argument of the last call stands for
GenEndCommit == IF gen.end.t = "commit" THEN gen.end.id ELSE gen.head
\* the commits of start..end of the last call
GenRange == Ancestors(commits, GenEndCommit) \ Ancestors(commits, gen.start)
GenFiles == gen.out.patches
Kinds == [i \in 1..Len(GenFiles) |-> GenFiles[i].kind]

\* C5: a start commit that is not an ancestor of the end commit (of the
\* checked-out head when end is a bare tree) makes generate_patches fail with
\* the ancestry error, before any file is written.
C5_AncestryPrecondition ==
    (gen.called /\ gen.end.t # "invalid"
       /\ gen.start \notin Ancestors(commits, GenEndCommit))
        => (gen.out.result = "NotAncestor" /\ GenFiles = <<>>)

C5_Witness ==
    /\ gen.called /\ gen.end.t = "tree" /\ gen.head = PackagingCommit
    /\ gen.start = 3
    /\ gen.out.result = "NotAncestor"

KindRank(kind) == IF kind = "squash" THEN 1
                  ELSE IF kind = "merge" THEN 2
                  ELSE IF kind = "patch" THEN 3
                  ELSE 4

\* C9: the returned list holds the squash diff, then the merge diff, then the
\* patches of the commits from the oldest to the newest, then the diff to a
\* bare tree; there is at most one diff of each kind.
C9_OutputOrdering ==
    (gen.called /\ gen.out.result = "ok") =>
        \A i, j \in 1..Len(GenFiles) :
            i < j =>
                /\ KindRank(GenFiles[i].kind) <= KindRank(GenFiles[j].kind)
                /\ GenFiles[i].kind = GenFiles[j].kind =>
                      (GenFiles[i].kind = "patch" /\ GenFiles[i].b < GenFiles[j].b)

C9_Witness ==
    /\ gen.called /\ gen.out.result = "ok"
    /\ Len(GenFiles) >= 4
    /\ Kinds[1] = "squash" /\ Kinds[2] = "merge" /\ Kinds[3] = "patch"
    /\ Kinds[Len(GenFiles)] = "tail"

\* the case of C10: no squash point, an end that is a commit, no merge commit
PlainRange ==
    /\ gen.called /\ gen.out.result = "ok"
    /\ gen.squash = SquashNone
    /\ gen.end.t = "commit"
    /\ \A c \in GenRange : Len(commits[c].parents) <= 1

PatchCommits == {GenFiles[i].b : i \in {j \in 1..Len(GenFiles) : Kinds[j] = "patch"}}
OnePatchEach(S) ==
    /\ PatchCommits = S
    /\ Len(GenFiles) = Cardinality(S)
    /\ \A i \in 1..Len(GenFiles) : Kinds[i] = "patch"

\* the commit changes a path that the export does not exclude
ChangesExported(c) ==
    TreeDiff(ParentTree(commits, c), commits[c].tree,
             IF gen.options.ignore_path THEN IgnoredPaths ELSE {}) # EmptyDelta

\* C10 as stated: one patch file for every commit without the ignore command.
C10_Original ==
    PlainRange =>
        /\ OnePatchEach({c \in GenRange : ~commits[c].ignore})
        /\ gen.out.log = {c \in GenRange : commits[c].ignore}

\* C10 as amended: one patch file for every commit without the ignore command
\* that changes a path the export does not exclude, none for the other commits,
\* a logged skip for every commit with the ignore command, and no diff file.
C10_PerCommitCount ==
    PlainRange =>
        /\ OnePatchEach({c \in GenRange : ~commits[c].ignore /\ ChangesExported(c)})
        /\ gen.out.log = {c \in GenRange : commits[c].ignore}

C10_Witness ==
    /\ PlainRange
    /\ Cardinality(GenRange) = 3
    /\ Cardinality(gen.out.log) = 1
    /\ Len(GenFiles) = 2


\* ------------------------------------------------------------------------
\* gbp.scripts.pq_rpm: import and export of the patch queue.
\* The repository holds the upstream commit 1 and the packaging commit 2,
\* the tip of the base branch; branch maps a branch name to its tip (None
\* for a branch that does not exist) and current is the branch checked out.
\* spec_series is the patch series of the spec file in the packaging
\* directory of the base branch (spec.patchseries(), in order) and
\* patch_files the patch files present in that directory.

\* git apply --index: a patch applies when every path it changes holds the
\* content the patch was made against
Applies(delta, tree) == \A p \in DOMAIN delta : tree[p] = delta[p][1]
ApplyDelta(delta, tree) ==
    [p \in Paths |-> IF p \in DOMAIN delta THEN delta[p][2] ELSE tree[p]]

\* import_extra_files (lines 330-357): the files found on the commitish
found(cs, commitish, fnames) == {fname \in fnames : cs[commitish].tree[fname] # 0}

\* an auto-import commit whose message carries no command
AutoImportCommitPlain(cs, tip, commitish, fnames) ==
    Commit(<<tip>>,
           [p \in Paths |-> IF p \in fnames THEN cs[commitish].tree[p]
                            ELSE cs[tip].tree[p]],
           FALSE)

\* import_extra_files: the auto-import commit, whose message carries the
\* ignore command
AutoImportCommit(cs, tip, commitish, fnames) ==
    Commit(<<tip>>,
           [p \in Paths |-> IF p \in fnames THEN cs[commitish].tree[p]
                            ELSE cs[tip].tree[p]],
           TRUE)

\* a replay that leaves out the last patch of the queue
RECURSIVE ReplayDropLast(_, _, _, _)
ReplayDropLast(cs, tip, queue, i) ==
    IF i >= Len(queue) THEN [cs |-> cs, tip |-> tip, ok |-> TRUE]
    ELSE IF ~Applies(queue[i].delta, cs[tip].tree)
         THEN [cs |-> cs, tip |-> tip, ok |-> FALSE]
         ELSE ReplayDropLast(
                  Append(cs, Commit(<<tip>>, ApplyDelta(queue[i].delta, cs[tip].tree),
                                    FALSE)),
                  Len(cs) + 1, queue, i + 1)

\* lines 419-421: apply_and_commit_patch on every patch of the queue, in
\* order; ok is FALSE when a patch does not apply
RECURSIVE Replay(_, _, _, _)
Replay(cs, tip, queue, i) ==
    IF i > Len(queue) THEN [cs |-> cs, tip |-> tip, ok |-> TRUE]
    ELSE IF ~Applies(queue[i].delta, cs[tip].tree)
         THEN [cs |-> cs, tip |-> tip, ok |-> FALSE]
         ELSE Replay(
                  Append(cs, Commit(<<tip>>, ApplyDelta(queue[i].delta, cs[tip].tree),
                                    FALSE)),
                  Len(cs) + 1, queue, i + 1)

\* gbp.scripts.common.pq
is_pq_branch(b) == b = Pq
pq_branch_base(b) == Base
pq_branch_name(b) == Pq

\* an import that only refuses to run on the patch-queue branch
ImportErrorOnPqOnly(cur, br, force) ==
    IF is_pq_branch(cur) /\ ~force THEN "AlreadyOnPq" ELSE ""

\* import_spec_patches, lines 369-376 and 386-388: the errors raised before
\* the repository is touched, "" when the import goes on
ImportError(cur, br, force) ==
    IF is_pq_branch(cur) /\ ~force THEN "AlreadyOnPq"
    ELSE IF br[Pq] # None /\ ~force THEN "PqExists"
    ELSE ""

\* safe_patches (lines 279-318) copies the patches of the queue in order:
\* a name with a compression other than gzip and bzip2 raises GbpError, a
\* file that is not there makes open() raise IOError; "" when all are copied
Uncompressors == {"gzip", "bzip2"}
RECURSIVE safe_patches(_, _, _)
safe_patches(queue, files, i) ==
    IF i > Len(queue) THEN ""
    ELSE IF queue[i].comp # "" /\ queue[i].comp \notin Uncompressors
    THEN "UnsupportedCompression"
    ELSE IF queue[i] \notin files THEN "IOError"
    ELSE safe_patches(queue, files, i + 1)

MaxSeries == 2        \* patches of the series of the initial spec file
MaxRepoCommits == 5   \* commits in the repository of the import/export model

\* the patches of the initial spec file: one creates file f and applies to
\* the upstream tree, the other removes f and applies only after the first
InitDeltas == {[p \in {"f"} |-> <<0, 1>>], [p \in {"f"} |-> <<1, 0>>]}
\* a patch of the initial spec file compressed in a way safe_patches cannot
\* undo
XzPatch ==
    [PatchFile("patch", 0, 0, 1, [p \in {"f"} |-> <<0, 1>>]) EXCEPT !.comp = "xz"]
InitSeries ==
    UNION {{[i \in 1..n |-> PatchFile("patch", 0, 0, i, q[i])] :
               q \in [1..n -> InitDeltas]} : n \in 0..MaxSeries}
    \cup {<<XzPatch>>}

InitPq ==
    /\ \E c \in {0, 1} :
         commits = <<Commit(<<>>, EmptyTree, FALSE),
                     Commit(<<>>, [PackagingTree EXCEPT !["c"] = c], FALSE)>>
    /\ gen = NoGen
    /\ branch = [b \in {Base, Pq} |-> IF b = Base THEN PackagingCommit ELSE None]
    /\ current = Base
    /\ spec_series \in InitSeries
    /\ patch_files = Range(spec_series)
    /\ imp = NoImp
    /\ IdleSpecFile /\ run = NoRun

Pre == [branch |-> branch, current |-> current, ncommits |-> Len(commits)]
ImpResult(force, import_files, imported, result) ==
    [op |-> "import", force |-> force, import_files |-> import_files,
     imported |-> imported, result |-> result, pre |-> Pre]

\* import_spec_patches (lines 359-426)
Import ==
    \E force \in BOOLEAN, import_files \in {{}, {"c"}} :
      LET base == IF is_pq_branch(current) THEN pq_branch_base(current) ELSE current
          upstream_commit == UpstreamCommit
          pq_branch == pq_branch_name(base)
          err == ImportError(current, branch, force)
          \* lines 389-396: force_head or create_branch(force=True)
          branch1 == [branch EXCEPT ![pq_branch] = upstream_commit]
          \* line 406, after the branch is made and before the try block
          safe == safe_patches(spec_series, patch_files, 1)
          extra == found(commits, branch[base], import_files)
          cs1 == IF extra # {}
                 THEN Append(commits, AutoImportCommit(commits, upstream_commit,
                                                       branch[base], extra))
                 ELSE commits
          tip1 == IF extra # {} THEN Len(cs1) ELSE upstream_commit
          r == Replay(cs1, tip1, spec_series, 1)
      IN  /\ Len(commits) + Len(spec_series) + Cardinality(extra) <= MaxRepoCommits
          /\ IF err # ""
             THEN /\ imp' = ImpResult(force, import_files, {}, err)
                  /\ UNCHANGED <<commits, branch, current>>
             ELSE IF safe # ""
             THEN \* the exception leaves safe_patches, outside the try
                  /\ imp' = ImpResult(force, import_files, {}, safe)
                  /\ branch' = branch1
                  /\ UNCHANGED <<commits, current>>
             ELSE IF r.ok
             THEN /\ imp' = ImpResult(force, import_files, extra, "ok")
                  /\ commits' = r.cs
                  /\ branch' = [branch1 EXCEPT ![pq_branch] = r.tip]
                  /\ current' = pq_branch
             ELSE \* lines 421-423: set_branch(base); delete_branch(pq_branch)
                  /\ imp' = ImpResult(force, import_files, extra, "ImportFailed")
                  /\ commits' = r.cs
                  /\ branch' = [branch1 EXCEPT ![pq_branch] = None]
                  /\ current' = base
          /\ UNCHANGED <<gen, spec_series, patch_files, specvars, run>>

\* export_patches (lines 256-276) with update_patch_series (lines 196-213).
\* pq_rpm.py calls spec.patchseries(unapplied=True) and
\* spec.update_patches(patches, commands), a SpecFile interface newer than
\* the one-argument methods of gbp/rpm/__init__.py in this tree; the calls are
\* taken to do what update_patches does with the file names: after
\* write_spec_file the series of the spec file lists the generated files,
\* in the order of the list.
Export ==
    \E export_rev \in {"", Base}, ign \in BOOLEAN :
      LET squash == SquashNone   \* patch_export_squash_until is not set
          options == [patch_numbers |-> TRUE, ignore_path |-> ign,
                      patch_export_compress |-> 0]
          on_pq == is_pq_branch(current)
          current1 == IF on_pq THEN pq_branch_base(current) ELSE current
          pq_branch == IF on_pq THEN current ELSE pq_branch_name(current)
          export_treeish == IF export_rev # "" THEN export_rev ELSE pq_branch
          valid == branch[export_treeish] # None
          end == IF valid THEN CommitRef(branch[export_treeish]) ELSE InvalidRef
          out == generate_patches(commits, branch[current1], UpstreamCommit,
                                  squash, end, options)
          \* rm_patch_files
          removed == patch_files \ Range(spec_series)
      IN  /\ current' = current1
          /\ gen' = [called |-> TRUE, start |-> UpstreamCommit, squash |-> squash,
                     head |-> branch[current1], end |-> end, options |-> options,
                     out |-> out]
          /\ imp' = NoImp
          /\ IF ~valid
             THEN UNCHANGED <<spec_series, patch_files>>
             ELSE IF out.result # "ok"
             THEN patch_files' = removed /\ UNCHANGED spec_series
             ELSE /\ spec_series' = out.patches
                  /\ patch_files' = removed \cup Range(out.patches)
          /\ UNCHANGED <<commits, branch, specvars, run>>

\* git commit on the patch-queue branch
PqCommit ==
    /\ is_pq_branch(current)
    /\ Len(commits) < MaxRepoCommits
    /\ \E kind \in CommitKinds :
         commits' = Append(commits, NewCommit(commits, branch[current], kind))
    /\ branch' = [branch EXCEPT ![current] = Len(commits) + 1]
    /\ imp' = NoImp /\ gen' = NoGen
    /\ UNCHANGED <<current, spec_series, patch_files, specvars, run>>

\* a switch that always heads for the patch-queue branch
SwitchTargetPq(cur) == pq_branch_name(cur)

\* switch_pq (lines 444-452): the branch the command heads for
SwitchTarget(cur) ==
    IF is_pq_branch(cur) THEN pq_branch_base(cur) ELSE pq_branch_name(cur)

\* switch_pq with switch_to_pq_branch (lines 466-480): from the patch-queue
\* branch repo.checkout(base); from a base branch repo.set_branch(pq_branch),
\* or GbpError "Branch ... does not exist" when there is no such branch
\* (gen and imp are the records of the last export and import; a switch
\* in between ends that history)
Switch ==
    LET target == SwitchTarget(current)
        missing == ~is_pq_branch(current) /\ branch[target] = None
    IN  /\ current' = IF missing THEN current ELSE target
        /\ imp' = [op |-> "switch", force |-> FALSE, import_files |-> {},
                   imported |-> {},
                   result |-> IF missing THEN "DoesNotExist" ELSE "ok",
                   pre |-> Pre]
        /\ gen' = NoGen
        /\ UNCHANGED <<commits, branch, spec_series, patch_files,
                       specvars, run>>

NextPq == Import \/ Export \/ PqCommit \/ Switch
SpecPq == InitPq /\ [][NextPq]_vars


\* ------------------------------------------------------------------------
\* Properties of import and export (specification SpecPq)

\* the last export succeeded, the spec file still lists what it wrote, and
\* the import that followed it replayed that series
RoundTrip ==
    /\ gen.called /\ gen.out.result = "ok" /\ gen.end.t = "commit"
    /\ spec_series = gen.out.patches
    /\ imp.op = "import" /\ imp.result = "ok"
ExportedRange == Ancestors(commits, gen.end.id) \ Ancestors(commits, gen.start)
LinearRange == \A c \in ExportedRange : Len(commits[c].parents) <= 1
SameTree == commits[branch[Pq]].tree = commits[gen.end.id].tree

\* C6 as stated: for a linear range with no squash point, the replay of the
\* exported series onto upstream gives a patch-queue branch with the tree
\* of the exported tip
C6_Original ==
    (RoundTrip /\ LinearRange /\ gen.squash = SquashNone) => SameTree

\* C6: for a linear range with no squash point and no commit carrying the
\* ignore command, exported without patch-export-ignore-path and replayed
\* by an import that adds no extra files, the patch-queue branch gets the
\* tree of the exported tip
C6_RoundTrip ==
    (/\ RoundTrip /\ LinearRange /\ gen.squash = SquashNone
     /\ ~gen.options.ignore_path
     /\ \A c \in ExportedRange : ~commits[c].ignore
     /\ imp.imported = {})
    => SameTree

C6_Witness ==
    /\ RoundTrip /\ LinearRange /\ gen.squash = SquashNone
    /\ ~gen.options.ignore_path
    /\ \A c \in ExportedRange : ~commits[c].ignore
    /\ imp.imported = {}
    /\ Len(spec_series) >= 1
    /\ commits[gen.end.id].tree # commits[UpstreamCommit].tree
    /\ SameTree

ImportWithoutForceOnExisting ==
    imp.op = "import" /\ ~imp.force /\ imp.pre.branch[Pq] # None
RepositoryUnchanged ==
    /\ branch = imp.pre.branch /\ current = imp.pre.current
    /\ Len(commits) = imp.pre.ncommits

\* C7: an import without force while the patch-queue branch exists is
\* rejected with an error and changes no branch, no checkout and no commit
C7_ImportRejected ==
    ImportWithoutForceOnExisting =>
        (imp.result \in {"AlreadyOnPq", "PqExists"} /\ RepositoryUnchanged)

C7_Witness ==
    /\ ImportWithoutForceOnExisting /\ imp.pre.current = Base
    /\ imp.pre.branch[Pq] > PackagingCommit
    /\ imp.result = "PqExists" /\ RepositoryUnchanged

\* C8: after an import whose replay failed the base branch is checked out
\* and the patch-queue branch is what it was before the import, absent if
\* it was absent
C8_Rollback ==
    (imp.op = "import" /\ imp.result = "ImportFailed") =>
        (current = Base /\ branch[Pq] = imp.pre.branch[Pq])

\* ------------------------------------------------------------------------
\* The spec file on disk.  An export parses the file into a SpecFile object,
\* reconciles the object with the generated patch files and writes it back.

\* the fields of a SpecFile object
Object(sf) == [content |-> sf.content, patches |-> sf.patches, tags |-> sf.tags,
               special_directives |-> sf.special_directives,
               gbp_tags |-> sf.gbp_tags]

\* write_spec_file: the text of every line of the document, in order
write_spec_file(sf) == LLLines(sf.content)

\* the file after a handler that writes whatever update_patches left behind
SpecFileOnDiskAlways(d, r) == write_spec_file(r.sf)

\* the file after update_patch_series: write_spec_file is the statement after
\* update_patches, so an exception of update_patches skips it
SpecFileOnDisk(d, r) ==
    IF r.result = "ok" THEN write_spec_file(r.sf) ELSE d

\* one export: parse_spec on the file, then the document side of
\* update_patch_series with the list of generated patch files.  (The side of
\* the repository and of the patch files is the action Export.)  A spec file
\* that does not parse ends the command before update_patch_series.
UpdatePatchSeries ==
    /\ Len(calls) < MaxCalls
    /\ loaded = "ok"
    /\ (IF calls = <<>> THEN TRUE ELSE Last(calls).result = "ok")
    /\ \E fns \in PatchLists : \E sf \in {_parse_content(disk)} :
      \E r \in {update_patches(Object(sf), fns)} :
        /\ IF sf.err
           THEN /\ loaded' = "error"
                /\ UNCHANGED <<content, patches, tags, special_directives,
                               gbp_tags, calls, disk>>
           ELSE /\ loaded' = "ok"
                /\ content' = r.sf.content
                /\ patches' = r.sf.patches
                /\ tags' = r.sf.tags
                /\ special_directives' = r.sf.special_directives
                /\ gbp_tags' = r.sf.gbp_tags
                /\ calls' = Append(calls, CallRecord(Object(sf), fns, r))
                /\ disk' = SpecFileOnDisk(disk, r)
        /\ UNCHANGED <<orig, bb, gitvars>>

NextSeries == UpdatePatchSeries
SpecSeries == Init /\ [][NextSeries]_vars

FailedCall(c) == c.result \in {"KeyError", "GbpError"}

\* C11: a step in which update_patches fails leaves the spec file on disk as
\* it was, and every step that changes the file is a step whose
\* update_patches returned successfully
C11_NoPartialWrite ==
    [][/\ (calls' # calls /\ FailedCall(Last(calls'))) => disk' = disk
       /\ disk' # disk => (calls' # calls /\ OkCall(Last(calls')))]_vars

\* update_patches failed for want of a place for the %patch macros after it
\* had inserted tag lines in memory, and the file still has its old lines
C11_Witness ==
    /\ calls # <<>>
    /\ Last(calls).result = "GbpError"
    /\ Last(calls).tag_anchor # None
    /\ \E l \in Range(Last(calls).lines) : MatchesAutoGenerated(l)
    /\ Last(calls).lines # disk
    /\ disk = (IF Len(calls) = 1 THEN orig ELSE calls[Len(calls) - 1].lines)

\* ------------------------------------------------------------------------
\* main of gbp pq-rpm and gbp pq-bb, and the scratch directory of a run.
\* run.fs is the set of directories that exist: the configured tmp-dir
\* (BaseDir), a directory of somebody else in it, the directory of this run
\* and a directory a handler makes inside it.
BaseDir == "tmp"
OtherDir == "tmp/other"
RunDir == "tmp/run"
SubDir == "tmp/run/sub"
Under(d) == IF d = BaseDir THEN {BaseDir, OtherDir, RunDir, SubDir}
            ELSE IF d = RunDir THEN {RunDir, SubDir}
            ELSE {d}

\* shutil.rmtree(d, ignore_errors=True)
rmtree(fs, d) == fs \ Under(d)

Tools == {"rpm", "bb"}
ToolActions(tool) ==
    {"export", "import", "rebase", "drop", "switch", "apply"}
    \cup (IF tool = "rpm" THEN {"convert"} ELSE {})
Argvs(tool) == ToolActions(tool) \cup {"", "unknown"}

\* what the try block can end with: a return, one of the three handled
\* exception classes, or any other exception
Handled == {"CommandExecFailed", "GitRepositoryError", "GbpError"}
Outcomes == {"return"} \cup Handled \cup {"Exception"}

InitMain ==
    /\ \E tool \in Tools : \E argv \in Argvs(tool),
          fs \in {{}, {BaseDir}, {BaseDir, OtherDir}} :
         run = [pc |-> "args", tool |-> tool, argv |-> argv, fs |-> fs,
                fs0 |-> fs, tmp_dir |-> BaseDir, raised |-> "", retval |-> 0]
    /\ IdleSpecFile
    /\ commits = <<>> /\ gen = NoGen /\ IdlePq

\* the checks before the try block: a missing or unknown action (or a
\* directory that is no git repository) returns 1 at once
MainArgs ==
    /\ run.pc = "args"
    /\ \E repo_ok \in BOOLEAN :
         run' = IF run.argv \in ToolActions(run.tool) /\ repo_ok
                THEN [run EXCEPT !.pc = "try"]
                ELSE [run EXCEPT !.pc = "exit", !.retval = 1]
    /\ UNCHANGED <<specvars, genvars, pqvars>>

\* the head of the try block: pq-bb initialises BitBake first, which can
\* raise GbpError; then gbp.tmpfile.mkdtemp makes the configured directory
\* when it is missing and the directory of the run inside it, and
\* options.tmp_dir is set to the latter.  When mkdtemp raises (OSError)
\* options.tmp_dir is still the configured directory.  fs0 keeps the
\* directories that existed when the command started.
MainTry ==
    /\ run.pc = "try"
    /\ \E tinfoil \in (IF run.tool = "bb" THEN {"return", "GbpError"}
                       ELSE {"return"}),
          mkdtemp \in {"return", "OSError"} :
         run' = IF tinfoil # "return"
                THEN [run EXCEPT !.pc = "finally", !.raised = tinfoil]
                ELSE IF mkdtemp # "return"
                THEN [run EXCEPT !.pc = "finally", !.raised = "Exception"]
                ELSE [run EXCEPT !.pc = "handler", !.tmp_dir = RunDir,
                                 !.fs = @ \cup {BaseDir, RunDir}]
    /\ UNCHANGED <<specvars, genvars, pqvars>>

\* the handler of the action; it may make directories of its own inside the
\* directory of the run (packaging_tmp, safe_patches)
MainHandler ==
    /\ run.pc = "handler"
    /\ \E out \in Outcomes, sub \in BOOLEAN :
         run' = [run EXCEPT !.pc = "finally",
                            !.raised = IF out = "return" THEN "" ELSE out,
                            !.fs = IF sub THEN @ \cup {SubDir} ELSE @]
    /\ UNCHANGED <<specvars, genvars, pqvars>>

\* a main whose clean-up is the last statement of the try block
FinallyOnReturn(r) ==
    [r EXCEPT !.pc = "exit",
              !.fs = IF r.raised = "" THEN rmtree(@, r.tmp_dir) ELSE @,
              !.retval = IF r.raised = "" THEN 0
                         ELSE IF r.raised \in Handled THEN 1 ELSE 2]

\* the except clauses and the finally clause: the handled classes give
\* retval 1, any other exception leaves main (2 stands for the traceback),
\* and rmtree(options.tmp_dir) runs in every case
Finally(r) ==
    [r EXCEPT !.pc = "exit",
              !.fs = rmtree(@, r.tmp_dir),
              !.retval = IF r.raised = "" THEN 0
                         ELSE IF r.raised \in Handled THEN 1 ELSE 2]

MainFinally ==
    /\ run.pc = "finally"
    /\ run' = Finally(run)
    /\ UNCHANGED <<specvars, genvars, pqvars>>

NextMain == MainArgs \/ MainTry \/ MainHandler \/ MainFinally
SpecMain == InitMain /\ [][NextMain]_vars

\* C12: when the command has ended, on whichever path, the directory of
\* the run and everything in it is gone
C12_ScratchRemoved ==
    run.pc = "exit" => run.fs \cap Under(RunDir) = {}

\* the command ended with an exception that main does not handle, after it
\* had made the directory of the run and a handler had filled it
C12_Witness ==
    /\ run.pc = "exit"
    /\ run.tmp_dir = RunDir
    /\ run.raised = "Exception"
    /\ run.retval = 2
    /\ run.fs \cap Under(RunDir) = {}

\* ------------------------------------------------------------------------
\* Parsing spec files with quirks: a Patch number that stands in two tag
\* lines, and %patch macros that are not in the order of the patch numbers.
\* loaded is "no" before SpecFile.__init__, "ok" after it, "error" when it
\* raised, and "read" once patchseries() has been called on the object.
DupFileName == <<"dup", "patch">>

\* status: patch number -> "none" | "auto" | "manual"
\* dup: the patch number with a second tag line (NoNum for none)
\* mac: "none" | "asc" | "desc", the order of the %patch macros
QuirkManifest(status, dup, mac) ==
    LET present == {n \in PatchNums : status[n] # "none"}
        manual == {n \in PatchNums : status[n] = "manual"}
        asc == SortedSeq(present)
        tagblock == [i \in 1..Len(asc) |->
                       TagLine("patch", asc[i], OldFileName(asc[i]))]
                    \o (IF dup # NoNum THEN <<TagLine("patch", dup, DupFileName)>>
                        ELSE <<>>)
        macros == IF mac = "none" THEN <<>>
                  ELSE LET order == IF mac = "desc" THEN Reverse(asc) ELSE asc
                       IN  [i \in 1..Len(order) |->
                              DirectiveLine("patch", order[i], <<1>>)]
    IN  <<TagLine("name", NoNum, <<"pkg">>),
          TagLine("source", 0, <<"pkg", "tar", "gz">>)>>
        \o tagblock
        \o (IF manual # {} THEN <<GbpTagLine("ignore-patches", SortedSeq(manual))>>
            ELSE <<>>)
        \o <<DirectiveLine("prep", NoNum, <<>>),
             DirectiveLine("setup", NoNum, <<>>)>>
        \o macros \o <<DirectiveLine("build", NoNum, <<>>)>>

QuirkManifests ==
    UNION {{QuirkManifest(st, dup, mac) :
              dup \in {n \in PatchNums : st[n] # "none"} \cup {NoNum},
              mac \in {"none", "asc", "desc"}} :
           st \in [PatchNums -> {"none", "auto", "manual"}]}

\* patchseries (lines 665-676): the applied autoupdate patches, walked in
\* the order of sorted(self.patches.iteritems()), that is by patch number
patchseries(sf) ==
    LET nums == SortedSeq({n \in DOMAIN sf.patches :
                             sf.patches[n].autoupdate /\ sf.patches[n].apply})
    IN  [i \in 1..Len(nums) |->
           [path |-> sf.patches[nums[i]].filename,
            strip |-> sf.patches[nums[i]].strip]]

InitParse ==
    /\ \E m \in QuirkManifests :
         /\ orig = m /\ disk = m
    /\ content = EmptyList /\ patches = NoPatches /\ tags = NoTags
    /\ special_directives = NoDirectives /\ gbp_tags = NoGbpTags
    /\ calls = <<>> /\ loaded = "no" /\ bb = NoBB
    /\ IdleGit

\* parse_spec: SpecFile(specfile) on the file on disk
ParseSpec ==
    /\ loaded = "no"
    /\ \E sf \in {_parse_content(disk)} :
         /\ loaded' = IF sf.err THEN "error" ELSE "ok"
         /\ content' = sf.content
         /\ patches' = sf.patches
         /\ tags' = sf.tags
         /\ special_directives' = sf.special_directives
         /\ gbp_tags' = sf.gbp_tags
    /\ UNCHANGED <<orig, disk, calls, bb, gitvars>>

\* spec.patchseries() on the parsed object
PatchSeries ==
    /\ loaded = "ok"
    /\ spec_series' = patchseries(Self)
    /\ loaded' = "read"
    /\ UNCHANGED <<content, patches, tags, special_directives, gbp_tags,
                   orig, disk, calls, bb, genvars, branch, current,
                   patch_files, imp, run>>

NextParse == ParseSpec \/ PatchSeries
SpecParse == InitParse /\ [][NextParse]_vars

\* the lines of the file that are tag lines of Patch n, in file order
PatchTagLines(n) ==
    SortedSeq({i \in 1..Len(orig) : IsPatchTag(orig[i]) /\ orig[i].num = n})
DupNums == {n \in PatchNums : Len(PatchTagLines(n)) > 1}
IgnoredInFile ==
    UNION {Range(orig[i].nums) :
             i \in {j \in 1..Len(orig) : orig[j].k = "gbp"
                                         /\ orig[j].name = "ignore-patches"}}

\* C13: a spec file in which a Patch number outside the ignore-patches set
\* stands in two tag lines fails to parse; when the number is in the set,
\* parsing succeeds and the patch keeps the file name of its first tag line
\* and tracks its later tag line
C13_DuplicateDetection ==
    loaded # "no" =>
        \A n \in DupNums :
            IF n \notin IgnoredInFile
            THEN loaded = "error"
            ELSE /\ loaded \in {"ok", "read"}
                 /\ patches[n].filename = orig[PatchTagLines(n)[1]].val
                 /\ patches[n].tag_line = Last(PatchTagLines(n))

\* the %patch macro lines of the applied autoupdate patches, in file order
MacroLines ==
    SortedSeq({patches[n].macro_line :
                 n \in {k \in DOMAIN patches :
                          patches[k].autoupdate /\ patches[k].apply}})
MacroOrderSeries ==
    [i \in 1..Len(MacroLines) |->
       LET n == CHOOSE k \in DOMAIN patches : patches[k].macro_line = MacroLines[i]
       IN  [path |-> patches[n].filename, strip |-> patches[n].strip]]

\* C14: patchseries() lists the patches in the order of their %patch macro
\* lines
C14_MacroOrder ==
    loaded = "read" => spec_series = MacroOrderSeries

\* ------------------------------------------------------------------------
\* Properties of switch (specification SpecPq)

\* a step of the action switch
SwitchStep == imp'.op = "switch" /\ imp' # imp

RemovalOf(pre) ==
    RemovePatches([sf |-> pre, last_removed_tag_line |-> None,
                   last_removed_macro_line |-> None],
                  ItemsOrder(pre.patches), 1)

\* a call that went on to look for the place of the new lines
InsertingCall(c) == c.args # <<>>

\* the tag lines of the patches the call does not remove
SurvivingTagLines(pre) ==
    {pre.patches[n].tag_line :
        n \in {k \in DOMAIN pre.patches : ~pre.patches[k].autoupdate}}

LastTagLine(sf, name) ==
    IF name \in DOMAIN sf.tags THEN Last(sf.tags[name]).line ELSE None

\* the anchor by the stated priorities: the place of the last removed tag
\* line, else the last Patch tag line that is still there, else the last
\* Source tag, else the Name tag
ClaimedTagAnchor(pre) ==
    LET lrt == RemovalOf(pre).last_removed_tag_line
    IN  IF lrt # None THEN lrt
        ELSE IF SurvivingTagLines(pre) # {} THEN SetMax(SurvivingTagLines(pre))
        ELSE IF LastTagLine(pre, "source") # None THEN LastTagLine(pre, "source")
        ELSE LastTagLine(pre, "name")

\* C16: the new Patch tag lines are anchored at the place of the last
\* removed autoupdate tag line, else at the last surviving Patch tag line,
\* else at the last Source tag, else at the Name tag
C16_TagAnchorPriority ==
    \A i \in DOMAIN calls :
        InsertingCall(calls[i]) =>
            calls[i].tag_anchor = ClaimedTagAnchor(calls[i].pre)

\* the %patch macro lines of the patches the call does not remove
SurvivingMacroLines(pre) ==
    {pre.patches[n].macro_line :
        n \in {k \in DOMAIN pre.patches :
                 ~pre.patches[k].autoupdate /\ pre.patches[k].macro_line # None}}

LastDirectiveLine(sf, name) ==
    IF sf.special_directives[name] # <<>>
    THEN Last(sf.special_directives[name]).line ELSE None

\* the anchor by the stated priorities: the gbp-patch-macros marker, else the
\* place of the last removed macro line, else the last %patch directive that
\* is still there, else the last %setup, else %prep, else none
ClaimedMacroAnchor(pre) ==
    LET lrm == RemovalOf(pre).last_removed_macro_line
    IN  IF pre.gbp_tags["patch-macros"] # <<>>
        THEN Last(pre.gbp_tags["patch-macros"]).line
        ELSE IF lrm # None THEN lrm
        ELSE IF SurvivingMacroLines(pre) # {}
        THEN SetMax(SurvivingMacroLines(pre))
        ELSE IF LastDirectiveLine(pre, "setup") # None
        THEN LastDirectiveLine(pre, "setup")
        ELSE LastDirectiveLine(pre, "prep")

\* a call that went on to look for the place of the %patch macros
MacroCall(c) == InsertingCall(c) /\ c.result # "KeyError"

RECURSIVE NextN(_, _, _)
NextN(ll, node, i) ==
    IF node = None \/ i = 0 THEN node ELSE NextN(ll, ll.next[node], i - 1)

\* the number of auto-generated comment lines a document holds
CommentCount(ll) ==
    Cardinality({n \in DOMAIN ll.data : ll.data[n] = AutoGenComment})

\* a call that inserted its tag lines
TagCall(c) == InsertingCall(c) /\ c.tag_anchor # None

EmptyCall(c) == c.args = <<>>

\* the tag and macro lines of the patches a call on pre removes
RemovedLines(pre) ==
    UNION {{pre.patches[n].tag_line, pre.patches[n].macro_line} :
             n \in {k \in DOMAIN pre.patches : pre.patches[k].autoupdate}}
    \ {None}

\* the comment lines that stand directly above a removed line and look like
\* a comment of a former update: an auto-generated comment above a tag line,
\* a patch file name above a macro line
RemovedComments(pre) ==
    {m \in Range(LLNodes(pre.content)) :
        \E n \in {k \in DOMAIN pre.patches : pre.patches[k].autoupdate} :
            \/ /\ pre.content.next[m] = pre.patches[n].tag_line
               /\ MatchesAutoGenerated(pre.content.data[m])
            \/ /\ pre.content.next[m] = pre.patches[n].macro_line
               /\ MatchesPatchFileComment(pre.content.data[m])}

\* the lines of a document without the lines of the set gone, in order
RECURSIVE LinesWithout(_, _, _)
LinesWithout(ll, nodes, gone) ==
    IF nodes = <<>> THEN <<>>
    ELSE (IF Head(nodes) \in gone THEN <<>> ELSE <<ll.data[Head(nodes)]>>)
         \o LinesWithout(ll, Tail(nodes), gone)

EmptyCallOk(c) ==
    /\ OkCall(c)
    /\ c.tag_anchor = None /\ c.macro_anchor = None

Degenerate(pre) == DOMAIN pre.tags \cap {"patch", "source", "name"} = {}

\* C20: a call with a non-empty list on a file with no Patch, Source or
\* Name tag fails with GbpError, the error class main reports as a
\* diagnostic
C20_DegenerateManifest ==
    \A i \in DOMAIN calls :
        (InsertingCall(calls[i]) /\ Degenerate(calls[i].pre))
            => calls[i].result = "GbpError"


\* ------------------------------------------------------------------------
\* The squash step of generate_patches (lines 116-135)

\* the commit the squash argument of the last call stands for
SquashPoint == IF gen.squash = SquashHead THEN GenEndCommit ELSE gen.squash
\* a call that passed the checks of lines 97-114 with a squash point that is
\* not the start commit
SquashCase ==
    /\ gen.called /\ gen.end.t # "invalid"
    /\ gen.start \in Ancestors(commits, GenEndCommit)
    /\ gen.squash # SquashNone /\ SquashPoint # gen.start
GenExclude == IF gen.options.ignore_path THEN IgnoredPaths ELSE {}
\* the diff start..S has no change of an exported path
SquashDiffEmpty ==
    TreeDiff(commits[gen.start].tree, commits[SquashPoint].tree, GenExclude)
        = EmptyDelta
FilesOfKind(kind) == {i \in 1..Len(GenFiles) : Kinds[i] = kind}
\* exactly one squash diff, from start to S, and no patch of a commit at or
\* before S
SquashedTo ==
    /\ Cardinality(FilesOfKind("squash")) = 1
    /\ \A i \in FilesOfKind("squash") :
          GenFiles[i].a = gen.start /\ GenFiles[i].b = SquashPoint
    /\ PatchCommits \cap Ancestors(commits, SquashPoint) = {}

\* C21 as stated: a squash point outside start..end fails the call; any
\* other squash point yields one diff start..S and no patch of a commit at
\* or before S.
C21_Original ==
    SquashCase =>
        IF SquashPoint \notin GenRange
        THEN gen.out.result = "SquashNotInHistory"
        ELSE gen.out.result = "ok" /\ SquashedTo

\* C21 as amended: a squash point outside start..end fails the call; a
\* squash point whose diff from the start is not empty yields one diff
\* start..S and no patch of a commit at or before S (none at all when S is
\* HEAD); when that diff is empty no squash diff is written.
C21_SquashStep ==
    SquashCase =>
        IF SquashPoint \notin GenRange
        THEN gen.out.result = "SquashNotInHistory"
        ELSE /\ gen.out.result = "ok"
             /\ IF SquashDiffEmpty THEN FilesOfKind("squash") = {}
                ELSE /\ SquashedTo
                     /\ gen.squash = SquashHead => PatchCommits = {}

C21_Witness ==
    /\ SquashCase /\ gen.out.result = "ok"
    /\ gen.start = UpstreamCommit /\ gen.squash = 4 /\ GenEndCommit = 5
    /\ ~SquashDiffEmpty
    /\ Kinds = <<"squash", "patch">>


\* ------------------------------------------------------------------------
\* The merge step of generate_patches (lines 136-149)

\* the start of the range after the squash step
EffectiveStart ==
    IF FilesOfKind("squash") # {} THEN SquashPoint ELSE gen.start
\* the merge commits of the range after the squash step
MergesInRange ==
    {c \in Ancestors(commits, GenEndCommit) \ Ancestors(commits, EffectiveStart) :
        Len(commits[c].parents) > 1}
MergeCase == gen.called /\ gen.out.result = "ok" /\ MergesInRange # {}
NewestMerge == SetMax(MergesInRange)
MergeDiffEmpty ==
    TreeDiff(commits[EffectiveStart].tree, commits[NewestMerge].tree, GenExclude)
        = EmptyDelta

\* C22 as stated: a range with merge commits yields one diff from the
\* effective start to one of its merges, and every other merge of the range
\* is left to the per-commit loop.
C22_Original ==
    MergeCase =>
        /\ Cardinality(FilesOfKind("merge")) = 1
        /\ \A i \in FilesOfKind("merge") :
              /\ GenFiles[i].a = EffectiveStart
              /\ GenFiles[i].b \in MergesInRange
              /\ \A c \in MergesInRange \ {GenFiles[i].b} :
                    c \notin Ancestors(commits, GenFiles[i].b)

\* C22 as amended: a range with merge commits yields one diff from the
\* effective start to the newest merge of the range when that diff is not
\* empty, and then no commit at or before that merge, so no merge at all,
\* is exported by the per-commit loop; an empty diff is not written.
C22_MergeStep ==
    MergeCase =>
        IF MergeDiffEmpty THEN FilesOfKind("merge") = {}
        ELSE /\ Cardinality(FilesOfKind("merge")) = 1
             /\ \A i \in FilesOfKind("merge") :
                   GenFiles[i].a = EffectiveStart /\ GenFiles[i].b = NewestMerge
             /\ PatchCommits \cap Ancestors(commits, NewestMerge) = {}
             /\ PatchCommits \cap MergesInRange = {}

C22_Witness ==
    /\ MergeCase /\ Cardinality(MergesInRange) = 2
    /\ gen.start = UpstreamCommit /\ gen.end = CommitRef(5)
    /\ Len(commits[3].parents) = 2 /\ Len(commits[5].parents) = 2
    /\ Len(GenFiles) = 1 /\ GenFiles[1].kind = "merge" /\ GenFiles[1].b = 5


\* ------------------------------------------------------------------------
\* The commands returned by generate_patches (lines 151-176)

\* C23: every key of the returned commands is the name of a returned file,
\* whatever the compression threshold is.
C23_CommandKeys ==
    (gen.called /\ gen.out.result = "ok") =>
        gen.out.commands \subseteq Range(GenFiles)


\* ------------------------------------------------------------------------
\* The auto-import commit and the export (specification SpecPq)

\* an export of the patch-queue branch that directly follows a successful
\* import which committed extra files
ExportAfterAutoImport ==
    /\ imp.op = "import" /\ imp.result = "ok" /\ imp.imported # {}
    /\ imp' = NoImp /\ gen'.called
    /\ gen'.end = CommitRef(branch[Pq])
Deltas(files) == [i \in DOMAIN files |-> files[i].delta]
\* the commit import_extra_files made: the first one on top of upstream
AutoImported(cs, c) == cs[c].parents = <<UpstreamCommit>> /\ cs[c].ignore

ExportSkipsAutoImport ==
    /\ gen'.out.result = "ok"
    /\ \A i \in DOMAIN gen'.out.patches :
          /\ gen'.out.patches[i].kind = "patch"
          /\ ~AutoImported(commits, gen'.out.patches[i].b)
    /\ \E c \in gen'.out.log : AutoImported(commits, c)

\* C24 as stated: the export that follows an import with extra files skips
\* the auto-import commit and writes exactly the patches of the replayed
\* series, in order.
C24_Original ==
    [][ExportAfterAutoImport =>
          /\ ExportSkipsAutoImport
          /\ Deltas(gen'.out.patches) = Deltas(spec_series)]_vars

\* C24 as amended: the export that follows an import with extra files skips
\* the auto-import commit, and without patch-export-ignore-path it writes
\* exactly the patches of the replayed series, in order.
C24_AutoImportInvisible ==
    [][ExportAfterAutoImport =>
          /\ ExportSkipsAutoImport
          /\ ~gen'.options.ignore_path =>
                Deltas(gen'.out.patches) = Deltas(spec_series)]_vars

C24_Witness ==
    /\ gen.called /\ gen.out.result = "ok" /\ gen.end = CommitRef(branch[Pq])
    /\ \E c \in gen.out.log :
          AutoImported(commits, c) /\ commits[c].tree["c"] = 1
    /\ ~gen.options.ignore_path
    /\ Len(GenFiles) = 2 /\ spec_series = GenFiles
    /\ branch[Pq] = 5


\* ------------------------------------------------------------------------
\* The anchors of update_patches and the document (specification Spec)

\* the lines of the document when the call inserts: those left by its
\* removal loop
LiveLines(pre) == Range(LLNodes(RemovalOf(pre).sf.content))

\* C25: in every sequence of calls on one object, the line a call inserts
\* its Patch tags after, and the line it inserts its %patch macros after, is
\* a line of the document at that moment.
C25_LiveAnchors ==
    \A i \in DOMAIN calls :
        InsertingCall(calls[i]) =>
            /\ calls[i].tag_anchor # None =>
                  calls[i].tag_anchor \in LiveLines(calls[i].pre)
            /\ calls[i].macro_anchor # None =>
                  calls[i].macro_anchor \in LiveLines(calls[i].pre)


\* ------------------------------------------------------------------------
\* What the clean-up of main removes (specification SpecMain)

\* C26: when the command has ended, on whichever path, every directory
\* that existed before it is still there, the configured tmp-dir among
\* them, and a run that made its own directory leaves the configured one.
C26_CleanupScope ==
    run.pc = "exit" =>
        /\ run.fs0 \subseteq run.fs
        /\ run.tmp_dir = RunDir => BaseDir \in run.fs


\* ------------------------------------------------------------------------
\* A failed import and the patch-queue branch (specification SpecPq)

\* an import that failed after the checks of lines 369-388
ImportFailedLate ==
    imp.op = "import" /\ imp.result \notin {"ok", "AlreadyOnPq", "PqExists"}

\* C27: after an import that failed past the existence check, a
\* patch-queue branch that did not exist before does not exist, and the
\* branch checked out is the one from before.
C27_NoBranchLeftBehind ==
    ImportFailedLate =>
        /\ imp.pre.branch[Pq] = None => branch[Pq] = None
        /\ current = imp.pre.current


\* ------------------------------------------------------------------------
\* A failed export and the patch files (specification SpecPq)

\* an export step in which generate_patches raised
ExportFailedInGenerate ==
    /\ imp' = NoImp /\ gen'.called
    /\ gen'.out.result \in {"InvalidTreeish", "NotAncestor", "SquashNotInHistory"}
    /\ gen'.end.t # "invalid"

\* C28: when generate_patches fails during an export, the manifest on disk
\* is unchanged and every patch file it lists that was there before the
\* export is still there.
C28_FilesKeptOnFailure ==
    [][ExportFailedInGenerate =>
          /\ spec_series' = spec_series
          /\ Range(spec_series) \cap patch_files \subseteq patch_files']_vars


\* ------------------------------------------------------------------------
\* The outputs of generate_patches and the commits of the range

\* the commits a written diff stands for
SquashCovered ==
    IF FilesOfKind("squash") # {}
    THEN Ancestors(commits, SquashPoint) \ Ancestors(commits, gen.start)
    ELSE {}
MergeCovered ==
    IF FilesOfKind("merge") # {}
    THEN Ancestors(commits, NewestMerge) \ Ancestors(commits, EffectiveStart)
    ELSE {}
PatchCount(c) == Cardinality({i \in FilesOfKind("patch") : GenFiles[i].b = c})
CoverCount(c) ==
    (IF c \in SquashCovered THEN 1 ELSE 0) + (IF c \in MergeCovered THEN 1 ELSE 0)
    + PatchCount(c)

\* C29 as stated: every commit of the range without the ignore command is
\* covered by exactly one output: the squash diff, the merge diff or its
\* own patch file.
C29_Original ==
    (gen.called /\ gen.out.result = "ok") =>
        \A c \in GenRange : ~commits[c].ignore => CoverCount(c) = 1

\* C29 as amended: no commit of the range is covered by two outputs, a
\* commit with the ignore command has no patch file of its own, and every
\* commit without the command that changes an exported path is covered by
\* exactly one output.
C29_ExactlyOnce ==
    (gen.called /\ gen.out.result = "ok") =>
        \A c \in GenRange :
            /\ CoverCount(c) <= 1
            /\ commits[c].ignore => PatchCount(c) = 0
            /\ (~commits[c].ignore /\ ChangesExported(c)) => CoverCount(c) = 1

C29_Witness ==
    /\ gen.called /\ gen.out.result = "ok"
    /\ gen.start = UpstreamCommit /\ GenEndCommit = 5 /\ gen.squash = 3
    /\ Len(commits[4].parents) = 2
    /\ Kinds = <<"squash", "merge", "patch">>
    /\ \A c \in GenRange : CoverCount(c) = 1


\* ------------------------------------------------------------------------
\* gbp.bb.BBFile: the line-wise rewriting of a recipe.
\* A line of a recipe is a record: name is the variable a definition
\* starts with on this line ("" when the line starts none), val tells
\* whether the line holds the URI of a patch file, and cont whether the
\* line, stripped of trailing white space, ends with a backslash.
\* bb.file is the recipe on disk, bb.file0 the recipe before the last
\* operation, bb.ret the list parse_file returned.

MaxBBLines == 3    \* lines of a recipe

BBVars == {"SRC_URI", "PV"}
BBLine(name, val, cont) == [name |-> name, val |-> val, cont |-> cont]
BBLines == {BBLine(name, val, cont) :
               name \in BBVars \cup {""}, val \in {"", "patch"}, cont \in BOOLEAN}
Recipes == UNION {SeqsOfLen(BBLines, n) : n \in 0..MaxBBLines}

RECURSIVE Flatten(_)
Flatten(chunks) ==
    IF chunks = <<>> THEN <<>> ELSE chunks[1] \o Flatten(Tail(chunks))

\* parse_file (lines 228-246): the groups of lines handed to the callback,
\* in order.  A line that does not end with a backslash is handed over
\* alone or closes the group collected so far; the loop ends with the file,
\* and what is left in multiline is not handed over.
RECURSIVE ParsedGroups(_, _, _, _)
ParsedGroups(lines, i, multiline, groups) ==
    IF i > Len(lines) THEN groups
    ELSE IF multiline = <<>>
    THEN IF ~lines[i].cont
         THEN ParsedGroups(lines, i + 1, <<>>, Append(groups, <<lines[i]>>))
         ELSE ParsedGroups(lines, i + 1, <<lines[i]>>, groups)
    ELSE IF ~lines[i].cont
         THEN ParsedGroups(lines, i + 1, <<>>,
                           Append(groups, Append(multiline, lines[i])))
         ELSE ParsedGroups(lines, i + 1, Append(multiline, lines[i]), groups)

\* vardef_re on the unwrapped group: the group defines the variable its
\* first line starts with
Defines(group, var) == group[1].name = var

\* a callback that returns its argument
identity_cb(group) == group

\* subst_cb (lines 282-294) for the pattern of a patch URI and the empty
\* replacement: in a definition of var the URI is taken out of every line
\* and a line left with a backslash only is dropped
SubstLine(line) == [line EXCEPT !.val = ""]
EmptyContinuation(line) == line.name = "" /\ line.val = "" /\ line.cont
RECURSIVE Filtered(_)
Filtered(group) ==
    IF group = <<>> THEN <<>>
    ELSE IF EmptyContinuation(SubstLine(group[1])) THEN Filtered(Tail(group))
    ELSE <<SubstLine(group[1])>> \o Filtered(Tail(group))
subst_cb(group, var) == IF Defines(group, var) THEN Filtered(group) ELSE group

\* parse_file(filepath, cb_func) with the identity callback
parse_file(lines) ==
    LET groups == ParsedGroups(lines, 1, <<>>, <<>>)
    IN  Flatten([i \in DOMAIN groups |-> identity_cb(groups[i])])

\* substitute_var_val (lines 279-301): the lines written back to the file
substitute_var_val(lines, var) ==
    LET groups == ParsedGroups(lines, 1, <<>>, <<>>)
    IN  Flatten([i \in DOMAIN groups |-> subst_cb(groups[i], var)])

InitBB ==
    /\ \E f \in Recipes :
         bb = [file |-> f, file0 |-> f, op |-> "", var |-> "", ret |-> <<>>]
    /\ content = EmptyList /\ patches = NoPatches /\ tags = NoTags
    /\ special_directives = NoDirectives /\ gbp_tags = NoGbpTags
    /\ orig = <<>> /\ calls = <<>> /\ disk = <<>> /\ loaded = "no"
    /\ IdleGit

\* BBFile.parse_file(path, cb) with a callback that returns its lines
ParseFile ==
    /\ bb.op = ""
    /\ \E r \in {parse_file(bb.file)} :
         bb' = [bb EXCEPT !.op = "parse_file", !.ret = r]
    /\ UNCHANGED <<content, patches, tags, special_directives, gbp_tags,
                   orig, calls, disk, loaded, gitvars>>

\* BBFile.substitute_var_val(path, var, pattern, ''), which writes the
\* returned lines back to the file
SubstituteVarVal ==
    /\ bb.op = ""
    /\ \E var \in BBVars : \E r \in {substitute_var_val(bb.file, var)} :
         bb' = [bb EXCEPT !.op = "substitute_var_val", !.var = var,
                          !.ret = r, !.file = r]
    /\ UNCHANGED <<content, patches, tags, special_directives, gbp_tags,
                   orig, calls, disk, loaded, gitvars>>

NextBB == ParseFile \/ SubstituteVarVal
SpecBB == InitBB /\ [][NextBB]_vars

\* the logical lines of a recipe: a line that ends with a backslash is
\* continued by the next one, to the first line without one or to the end
\* of the file
RECURSIVE LogicalLines(_, _, _)
LogicalLines(lines, i, cur) ==
    IF i > Len(lines) THEN (IF cur = <<>> THEN <<>> ELSE <<cur>>)
    ELSE IF lines[i].cont THEN LogicalLines(lines, i + 1, Append(cur, lines[i]))
    ELSE <<Append(cur, lines[i])>> \o LogicalLines(lines, i + 1, <<>>)
\* the lines outside the definitions of var
RECURSIVE Outside(_, _)
Outside(groups, var) ==
    IF groups = <<>> THEN <<>>
    ELSE IF Defines(groups[1], var) THEN Outside(Tail(groups), var)
    ELSE groups[1] \o Outside(Tail(groups), var)
LinesOutside(lines, var) == Outside(LogicalLines(lines, 1, <<>>), var)

\* C30: parse_file with a callback that returns its lines returns the
\* lines of the file, all of them and in order, and substitute_var_val
\* keeps every line outside the definitions of the variable it rewrites.
C30_NoLineLost ==
    /\ bb.op = "parse_file" => bb.ret = bb.file
    /\ bb.op = "substitute_var_val" =>
          LinesOutside(bb.file, bb.var) = LinesOutside(bb.file0, bb.var)

====
